---- MODULE Spec2Model ----
(***************************************************************************)
(* Model of the polynote front-end dispatchers and client backup store     *)
(* (polynote-frontend/polynote/ui/component/client_backup.ts).             *)
(*                                                                         *)
(* The notebook state (cells, version vector, edit buffer, completion and  *)
(* signature slots) is the state of the machine; every branch of           *)
(* NotebookMessageDispatcher.dispatch is one action.  The socket is        *)
(* modelled by the sequence of messages handed to socket.send, and the     *)
(* callbacks of completion/signature requests by a log of their calls.     *)
(*                                                                         *)
(* The machines share the module, each with its own specification:         *)
(*   Spec          NotebookMessageDispatcher.dispatch, content, requests   *)
(*   SpecSelect    NotebookMessageDispatcher selection and helper methods  *)
(*   SpecServer    ServerMessageDispatcher.dispatch                        *)
(*   SpecBackup    ClientBackup, each call awaited before the next         *)
(*   SpecAsync     ClientBackup, calls in flight together                  *)
(*   SpecDispatch  every branch of NotebookMessageDispatcher.dispatch      *)
(*   SpecMatch     both dispatchers handed every UIAction variant          *)
(* The variables of the machines a specification does not run keep their   *)
(* initial values.                                                         *)
(***************************************************************************)
EXTENDS Integers, Sequences, FiniteSets, TLC

\* ------------------------------------------------------------------ bounds
\* number of dispatch calls explored in one behaviour
MaxDispatches == 3
\* number of day changes explored in one behaviour
MaxBackupOps == 1
\* largest cell id of a notebook as loaded, and largest id an action names
MaxId == 1
\* longest cell list of a notebook as loaded
MaxInitCells == 2
\* number of ClientBackup calls in flight in one behaviour
MaxCalls == 2
\* number of dispatches, helper calls and status changes explored in one
\* behaviour of both dispatchers together
MaxSteps == 2

\* ------------------------------------------------------------ input domains
\* JavaScript `undefined` for an optional argument
Undefined == "<undefined>"
\* the empty completion / signature slot (state.activeCompletion undefined)
NoRequest == 0

IdRange == 0..MaxId
Languages == {"scala", "python"}
Contents == {""}
Metadatas == {"m0"}
Configs == {"conf1"}

\* run state of a cell as loaded: never run, or run with results and an error
CellRunStates ==
    { [queued |-> FALSE, results |-> <<>>, error |-> FALSE],
      [queued |-> FALSE, results |-> <<"out">>, error |-> TRUE] }

\* NotebookCell together with the transient fields the dispatcher writes
NotebookCell(id, language, content, results, metadata) ==
    [id |-> id, language |-> language, content |-> content,
     results |-> results, metadata |-> metadata]

LoadedCell(id, run) ==
    [id |-> id, language |-> "scala", content |-> "", metadata |-> "m0",
     queued |-> run.queued, results |-> run.results, error |-> run.error,
     selected |-> FALSE]

\* sequences over S of length at most n
RECURSIVE SeqsUpTo(_, _)
SeqsUpTo(S, n) ==
    IF n = 0 THEN { <<>> }
    ELSE LET shorter == SeqsUpTo(S, n - 1)
         IN  shorter \cup { Append(s, x) : s \in shorter, x \in S }

DistinctIds(s) == \A i, j \in 1..Len(s) : i # j => s[i].id # s[j].id

NoRepeats(s) == \A i, j \in 1..Len(s) : i # j => s[i] # s[j]

\* the cell lists a notebook can hold when it is opened
LoadedNotebooks ==
    { s \in SeqsUpTo({ LoadedCell(i, r) : i \in IdRange, r \in CellRunStates },
                     MaxInitCells) : DistinctIds(s) }

\* ------------------------------------------------------------------- state
VARIABLES
    cells,            \* NotebookState.cells
    globalVersion,    \* NotebookState.globalVersion
    localVersion,     \* NotebookState.localVersion
    editBuffer,       \* NotebookState.editBuffer
    activeCompletion, \* NotebookState.activeCompletion (request id or NoRequest)
    activeSignature,  \* NotebookState.activeSignature (request id or NoRequest)
    sent,             \* messages handed to socket.send, in order
    log,              \* callback calls and slot stores, in order
    nextReq,          \* id of the next completion/signature request object
    nMutating,        \* number of content-mutating dispatches issued
    nDispatch,        \* number of dispatch calls issued
    last,             \* the last dispatch: action, arguments and state before
    activeCell,       \* NotebookState.activeCell: <<>> (undefined) or <<cell>>
    thrown            \* the error the last call raised, or "none"

\* state of the ServerMessageDispatcher
VARIABLES
    notebooks,        \* ServerState.notebooks: path -> notebook handle
    currentNotebook,  \* ServerState.currentNotebook: <<>> or <<path>>
    about,            \* EphemeralState.about: <<>> or <<section>>
    svSent,           \* messages the server dispatcher handed to socket.send
    nLoaded,          \* number of ServerStateHandler.loadNotebook calls
    nSvDispatch,      \* number of ServerMessageDispatcher.dispatch calls
    svLast            \* the last server dispatch: action, arguments, state before

\* state of the ClientBackup store
VARIABLES
    store,            \* idb-keyval store: path -> IBackups
    today,            \* todayTs(): the current day
    now,              \* Date.now(): the value the clock gave when last read
    nOps,             \* number of day changes
    bkLast            \* the ClientBackup call that settled last

\* the socket status and the ClientBackup calls in flight
VARIABLES
    socketStatus,     \* socket.view("status"): the status last observed
    calls             \* ClientBackup calls issued, each with its position

nbVars == <<cells, globalVersion, localVersion, editBuffer, activeCompletion,
            activeSignature, sent, log, nextReq, nMutating, nDispatch, last,
            activeCell, thrown>>
svVars == <<notebooks, currentNotebook, about, svSent, nLoaded, nSvDispatch,
            svLast>>
bkVars == <<store, today, now, nOps, bkLast>>

xVars == <<socketStatus, calls>>

vars == <<nbVars, svVars, bkVars, xVars>>

\* ------------------------------------------------------------- edit buffer
\* EditBuffer: an ordered mapping localVersion -> message
EmptyEditBuffer == << >>

EditBufferPush(buf, version, edit) ==
    [k \in (DOMAIN buf) \cup {version} |-> IF k = version THEN edit ELSE buf[k]]

\* ----------------------------------------------------------------- helpers
\* faulty variant of MaxCellId: takes the id of the last cell for the largest
MaxCellId_LastCell(cs) == IF cs = <<>> THEN -1 ELSE cs[Len(cs)].id

\* state.cells.reduce((acc, cell) => acc > cell.id ? acc : cell.id, -1)
RECURSIVE MaxCellId(_)
MaxCellId(cs) ==
    IF cs = <<>> THEN -1
    ELSE LET acc == MaxCellId(SubSeq(cs, 1, Len(cs) - 1))
             cell == cs[Len(cs)]
         IN  IF acc > cell.id THEN acc ELSE cell.id

Ids(cs) == [i \in 1..Len(cs) |-> cs[i].id]

Includes(s, x) == \E i \in 1..Len(s) : s[i] = x

Snapshot(action, args) ==
    [action |-> action, args |-> args, cells |-> cells,
     localVersion |-> localVersion, globalVersion |-> globalVersion,
     editBuffer |-> editBuffer, nSent |-> Len(sent)]

\* a dispatch call that returns normally
Dispatched(action, args) ==
    /\ nDispatch < MaxDispatches
    /\ nDispatch' = nDispatch + 1
    /\ last' = Snapshot(action, args)
    /\ thrown' = "none"
    /\ UNCHANGED <<svVars, bkVars, xVars>>

\* the notebook state of a freshly opened notebook, but for its cells
NotebookState0 ==
    /\ globalVersion = 0
    /\ localVersion = 0
    /\ editBuffer = EmptyEditBuffer
    /\ activeCompletion = NoRequest
    /\ activeSignature = NoRequest
    /\ sent = <<>>
    /\ log = <<>>
    /\ nextReq = 1
    /\ nMutating = 0
    /\ nDispatch = 0
    /\ last = [action |-> "none"]
    /\ activeCell = <<>>
    /\ thrown = "none"

\* the session state before any notebook is loaded
ServerState0 ==
    /\ notebooks = << >>
    /\ currentNotebook = <<>>
    /\ about = <<>>
    /\ svSent = <<>>
    /\ nLoaded = 0
    /\ nSvDispatch = 0
    /\ svLast = [action |-> "none", args |-> <<>>]

\* the backup store before any backup is written
BackupState0 ==
    /\ store = << >>
    /\ today = 1
    /\ now = 1
    /\ nOps = 0
    /\ bkLast = [op |-> "none"]

\* the socket before it connects; no ClientBackup call issued
ObserverState0 ==
    /\ socketStatus = "disconnected"
    /\ calls = <<>>

Init ==
    /\ cells \in LoadedNotebooks
    /\ NotebookState0
    /\ ServerState0
    /\ BackupState0
    /\ ObserverState0

\* ------------------------------------------------- content-mutating actions
InsertCellMsg(gv, lv, cell, after) ==
    [type |-> "InsertCell", globalVersion |-> gv, localVersion |-> lv,
     cell |-> cell, after |-> after]

CreateCell(language, content, metadata, prev) ==
    LET lv == localVersion + 1
        maxId == MaxCellId(cells)
        cell == NotebookCell(maxId + 1, language, content, <<>>, metadata)
        update == InsertCellMsg(globalVersion, lv, cell, prev)
    IN  /\ Dispatched("CreateCell", <<language, content, metadata, prev>>)
        /\ sent' = Append(sent, update)
        /\ editBuffer' = EditBufferPush(editBuffer, localVersion, update)
        /\ nMutating' = nMutating + 1
        /\ UNCHANGED <<cells, globalVersion, localVersion, activeCompletion,
                       activeSignature, log, nextReq, activeCell>>

UpdateCellMsg(gv, lv, cellId, edits, metadata) ==
    [type |-> "UpdateCell", globalVersion |-> gv, localVersion |-> lv,
     id |-> cellId, edits |-> edits, metadata |-> metadata]

\* newContent ?? cell.content, metadata ?? cell.metadata
OrElse(value, default) == IF value = Undefined THEN default ELSE value

UpdateCell(cellId, edits, newContent, metadata) ==
    LET lv == localVersion + 1
        update == UpdateCellMsg(globalVersion, lv, cellId, edits, metadata)
    IN  /\ Dispatched("UpdateCell", <<cellId, edits, newContent, metadata>>)
        /\ sent' = Append(sent, update)
        /\ editBuffer' = EditBufferPush(editBuffer, localVersion, update)
        /\ cells' = [i \in 1..Len(cells) |->
                        IF cells[i].id = cellId
                        THEN [cells[i] EXCEPT
                                !.content = OrElse(newContent, cells[i].content),
                                !.metadata = OrElse(metadata, cells[i].metadata)]
                        ELSE cells[i]]
        /\ nMutating' = nMutating + 1
        /\ UNCHANGED <<globalVersion, localVersion, activeCompletion,
                       activeSignature, log, nextReq, activeCell>>

\* faulty variant of DeleteCellMsg: the two versions change places
DeleteCellMsg_SwapsVersions(gv, lv, cellId) ==
    [type |-> "DeleteCell", globalVersion |-> lv, localVersion |-> gv,
     id |-> cellId]

DeleteCellMsg(gv, lv, cellId) ==
    [type |-> "DeleteCell", globalVersion |-> gv, localVersion |-> lv,
     id |-> cellId]

DeleteCell(cellId) ==
    LET lv == localVersion + 1
        update == DeleteCellMsg(globalVersion, lv, cellId)
    IN  /\ Dispatched("DeleteCell", <<cellId>>)
        /\ localVersion' = lv
        /\ sent' = Append(sent, update)
        /\ editBuffer' = EditBufferPush(editBuffer, lv, update)
        /\ nMutating' = nMutating + 1
        /\ UNCHANGED <<cells, globalVersion, activeCompletion,
                       activeSignature, log, nextReq, activeCell>>

UpdateConfigMsg(gv, lv, conf) ==
    [type |-> "UpdateConfig", globalVersion |-> gv, localVersion |-> lv,
     config |-> conf]

UpdateConfig(conf) ==
    LET lv == localVersion + 1
        update == UpdateConfigMsg(globalVersion, lv, conf)
    IN  /\ Dispatched("UpdateConfig", <<conf>>)
        /\ localVersion' = lv
        /\ sent' = Append(sent, update)
        /\ editBuffer' = EditBufferPush(editBuffer, lv, update)
        /\ nMutating' = nMutating + 1
        /\ UNCHANGED <<cells, globalVersion, activeCompletion,
                       activeSignature, log, nextReq, activeCell>>

\* ---------------------------------------------------------------- run cells
\* faulty variant of RunTargets: an empty id list is sent as it is
RunTargets_NoSugar(cs, cellIds) == cellIds

\* if (cellIds.length === 0) cellIds = state.cells.map(cell => cell.id)
RunTargets(cs, cellIds) == IF Len(cellIds) = 0 THEN Ids(cs) ELSE cellIds

\* { ...cell, queued: true, results: [], error: false } for the targeted cells
MarkQueued(cs, cellIds) ==
    [i \in 1..Len(cs) |->
        IF Includes(cellIds, cs[i].id)
        THEN [cs[i] EXCEPT !.queued = TRUE, !.results = <<>>, !.error = FALSE]
        ELSE cs[i]]

RunCellMsg(cellIds) == [type |-> "RunCell", ids |-> cellIds]

RequestCellRun(cellIds) ==
    LET targets == RunTargets(cells, cellIds)
    IN  /\ Dispatched("RequestCellRun", <<cellIds>>)
        /\ sent' = Append(sent, RunCellMsg(targets))
        /\ cells' = MarkQueued(cells, targets)
        /\ UNCHANGED <<globalVersion, localVersion, editBuffer,
                       activeCompletion, activeSignature, log, nextReq,
                       nMutating, activeCell>>

\* ------------------------------------------- completion / signature requests
\* a call of one of the callbacks of request object req
Call(fn, req) == [event |-> "call", fn |-> fn, req |-> req]

\* the state update that puts {resolve, reject} of req into a slot
Store(slot, req) == [event |-> "store", slot |-> slot, req |-> req]

\* faulty variant of Supersede: the request in the slot is dropped unrejected
Supersede_NoReject(slot, active, req) == <<Store(slot, req)>>

\* if (active) active.reject(); return {...state, <slot>: {resolve, reject}}
Supersede(slot, active, req) ==
    IF active # NoRequest
    THEN <<Call("reject", active), Store(slot, req)>>
    ELSE <<Store(slot, req)>>

CompletionsAtMsg(cellId, offset) ==
    [type |-> "CompletionsAt", id |-> cellId, pos |-> offset,
     completions |-> <<>>]

RequestCompletions(cellId, offset) ==
    /\ Dispatched("RequestCompletions", <<cellId, offset, nextReq>>)
    /\ sent' = Append(sent, CompletionsAtMsg(cellId, offset))
    /\ log' = log \o Supersede("activeCompletion", activeCompletion, nextReq)
    /\ activeCompletion' = nextReq
    /\ nextReq' = nextReq + 1
    /\ UNCHANGED <<cells, globalVersion, localVersion, editBuffer,
                   activeSignature, nMutating, activeCell>>

ParametersAtMsg(cellId, offset) ==
    [type |-> "ParametersAt", id |-> cellId, pos |-> offset]

RequestSignature(cellId, offset) ==
    /\ Dispatched("RequestSignature", <<cellId, offset, nextReq>>)
    /\ sent' = Append(sent, ParametersAtMsg(cellId, offset))
    /\ log' = log \o Supersede("activeSignature", activeSignature, nextReq)
    /\ activeSignature' = nextReq
    /\ nextReq' = nextReq + 1
    /\ UNCHANGED <<cells, globalVersion, localVersion, editBuffer,
                   activeCompletion, nMutating, activeCell>>

\* ------------------------------------------------------------ specification
PrevIds == IdRange \cup {-1}
EditLists == { <<"edit">> }
\* the (newContent, metadata) pairs an UpdateCell carries
UpdateCellArgs == { <<"x", Undefined>>, <<Undefined, "m1">> }
RunIdLists == { s \in SeqsUpTo(IdRange, 2) : NoRepeats(s) }
Offsets == {0}

Next ==
    \/ \E l \in Languages, c \in Contents, m \in Metadatas, p \in PrevIds :
          CreateCell(l, c, m, p)
    \/ \E id \in IdRange, e \in EditLists, a \in UpdateCellArgs :
          UpdateCell(id, e, a[1], a[2])
    \/ \E id \in IdRange : DeleteCell(id)
    \/ \E conf \in Configs : UpdateConfig(conf)
    \/ \E ids \in RunIdLists : RequestCellRun(ids)
    \/ \E id \in IdRange, o \in Offsets : RequestCompletions(id, o)
    \/ \E id \in IdRange, o \in Offsets : RequestSignature(id, o)

Spec == Init /\ [][Next]_vars

\* ------------------------------------------------------ selection and helpers
\* state.cells.findIndex(cell => cell.id === id): 0-based, -1 when absent;
\* id is <<>> (undefined) or <<n>>
FindIndex(cs, id) ==
    LET hits == { i \in 1..Len(cs) : <<cs[i].id>> = id }
    IN  IF hits = {} THEN -1
        ELSE (CHOOSE i \in hits : \A j \in hits : i <= j) - 1

\* state.cells[idx]?.id for a 0-based idx: <<>> when there is no such cell
IdAt(cs, idx) ==
    IF idx >= 0 /\ idx < Len(cs) THEN <<cs[idx + 1].id>> ELSE <<>>

\* state.cells.find(cell => cell.id === id): <<>> or <<cell>>
FindCell(cs, id) ==
    LET idx == FindIndex(cs, id)
    IN  IF idx = -1 THEN <<>> ELSE <<cs[idx + 1]>>

Relatives == {"none", "above", "below"}

\* faulty variant of SelectedId: no fallback to the requested id
SelectedId_NoFallback(cs, selected, relative) ==
    LET anchorIdx == FindIndex(cs, selected)
    IN  IF relative = "above" THEN IdAt(cs, anchorIdx - 1)
        ELSE IF relative = "below" THEN IdAt(cs, anchorIdx + 1)
        ELSE selected

\* faulty variant of SelectedId: an undefined requested id falls back to 0
SelectedId_UndefinedToZero(cs, selected, relative) ==
    LET anchorIdx == FindIndex(cs, selected)
        id == IF relative = "above" THEN IdAt(cs, anchorIdx - 1)
              ELSE IF relative = "below" THEN IdAt(cs, anchorIdx + 1)
              ELSE selected
    IN  IF id # <<>> THEN id
        ELSE IF selected = <<-1>> \/ selected = <<>> THEN <<0>> ELSE selected

\* the id SetSelectedCell resolves to:
\*   id = cells[anchorIdx -/+ 1]?.id;  id = id ?? (selected === -1 ? 0 : selected)
SelectedId(cs, selected, relative) ==
    LET anchorIdx == FindIndex(cs, selected)
        id == IF relative = "above" THEN IdAt(cs, anchorIdx - 1)
              ELSE IF relative = "below" THEN IdAt(cs, anchorIdx + 1)
              ELSE selected
    IN  IF id # <<>> THEN id
        ELSE IF selected = <<-1>> THEN <<0>> ELSE selected

SetSelectedCell(selected, relative) ==
    LET id == SelectedId(cells, selected, relative)
    IN  /\ Dispatched("SetSelectedCell", <<selected, relative>>)
        /\ activeCell' = FindCell(cells, id)
        /\ cells' = [i \in 1..Len(cells) |->
                        [cells[i] EXCEPT !.selected = (<<cells[i].id>> = id)]]
        /\ UNCHANGED <<globalVersion, localVersion, editBuffer,
                       activeCompletion, activeSignature, sent, log, nextReq,
                       nMutating>>

\* a helper call that raises err before it dispatches anything
Threw(helper, args, err) ==
    /\ nDispatch < MaxDispatches
    /\ nDispatch' = nDispatch + 1
    /\ last' = Snapshot(helper, args)
    /\ thrown' = err
    /\ UNCHANGED <<cells, globalVersion, localVersion, editBuffer,
                   activeCompletion, activeSignature, sent, log, nextReq,
                   nMutating, activeCell>>
    /\ UNCHANGED <<svVars, bkVars, xVars>>

\* a helper call that returns without dispatching anything
Skipped(helper, args) == Threw(helper, args, "none")

\* the {id, language, metadata} of a cell
AnchorOf(cell) ==
    [id |-> cell.id, language |-> cell.language, metadata |-> cell.metadata]

\* insertCell: the cell the anchor is taken from when none is given
\*   currentCell = activeCell ?? (above ? cells[0] : cells[cells.length - 1])
CurrentCell(direction) ==
    IF activeCell # <<>> THEN activeCell
    ELSE IF cells = <<>> THEN <<>>
    ELSE IF direction = "above" THEN <<cells[1]>> ELSE <<cells[Len(cells)]>>

insertCell(direction, anchor) ==
    LET currentCell == CurrentCell(direction)
    IN  IF anchor = <<>> /\ currentCell = <<>>
        THEN \* currentCell.id on undefined
             Threw("insertCell", <<direction, anchor>>, "TypeError")
        ELSE LET a == IF anchor = <<>> THEN AnchorOf(currentCell[1])
                      ELSE anchor[1]
                 anchorIdx == FindIndex(cells, <<a.id>>)
                 prevIdx == IF direction = "above" THEN anchorIdx - 1
                            ELSE anchorIdx
                 maybePrev == IdAt(cells, prevIdx)
             IN  IF maybePrev = <<>>
                 THEN \* maybePrev.id on undefined
                      Threw("insertCell", <<direction, anchor>>, "TypeError")
                 ELSE CreateCell(a.language, "", a.metadata, maybePrev[1])

deleteCell(id) ==
    LET target == IF id # <<>> THEN id
                  ELSE IF activeCell # <<>> THEN <<activeCell[1].id>> ELSE <<>>
    IN  IF target # <<>> THEN DeleteCell(target[1])
        ELSE Skipped("deleteCell", <<id>>)

runActiveCell ==
    IF activeCell # <<>> THEN RequestCellRun(<<activeCell[1].id>>)
    ELSE Skipped("runActiveCell", <<>>)

OptionalIds == { <<>> } \cup { <<i>> : i \in IdRange }
SelectableIds == OptionalIds \cup { <<-1>> }
Directions == {"above", "below"}
Anchors ==
    { <<>> } \cup { <<[id |-> i, language |-> "python", metadata |-> "m1"]>> :
                       i \in IdRange }

NextSelect ==
    \/ \E id \in SelectableIds, r \in Relatives : SetSelectedCell(id, r)
    \/ \E d \in Directions, a \in Anchors : insertCell(d, a)
    \/ \E id \in OptionalIds : deleteCell(id)
    \/ runActiveCell

SpecSelect == Init /\ [][NextSelect]_vars

\* ------------------------------------------------- ServerMessageDispatcher
Paths == {"a", "b"}
Sections == {"about"}

SvSnapshot(action, args) ==
    [action |-> action, args |-> args, prev |-> <<svLast.action, svLast.args>>,
     notebooks |-> notebooks, currentNotebook |-> currentNotebook,
     about |-> about, nLoaded |-> nLoaded, nSent |-> Len(svSent)]

\* a ServerMessageDispatcher.dispatch call
SvDispatched(action, args) ==
    /\ nSvDispatch < MaxDispatches
    /\ nSvDispatch' = nSvDispatch + 1
    /\ svLast' = SvSnapshot(action, args)
    /\ UNCHANGED <<nbVars, bkVars, xVars>>

\* ServerStateHandler.loadNotebook(path).loaded: the handle of the n-th
\* notebook state created
LoadedHandle(path, n) == [path |-> path, handle |-> n]

\* !s.notebooks[path]
Untracked(nbs, path) == path \notin DOMAIN nbs

\* {...notebooks, [path]: handle}
WithNotebook(nbs, path, handle) ==
    [k \in (DOMAIN nbs) \cup {path} |-> IF k = path THEN handle ELSE nbs[k]]

\* a branch that only hands msg to socket.send
SendOnly(action, args, msg) ==
    /\ SvDispatched(action, args)
    /\ svSent' = Append(svSent, msg)
    /\ UNCHANGED <<notebooks, currentNotebook, about, nLoaded>>

RequestNotebooksList ==
    SendOnly("RequestNotebooksList", <<>>,
             [type |-> "ListNotebooks", paths |-> <<>>])

\* faulty variant of LoadNotebook: the notebook is loaded again when tracked
LoadNotebook_AlwaysLoads(path) ==
    /\ SvDispatched("LoadNotebook", <<path>>)
    /\ notebooks' = WithNotebook(notebooks, path, LoadedHandle(path, nLoaded + 1))
    /\ nLoaded' = nLoaded + 1
    /\ currentNotebook' = <<path>>
    /\ UNCHANGED <<about, svSent>>

LoadNotebook(path) ==
    /\ SvDispatched("LoadNotebook", <<path>>)
    /\ IF Untracked(notebooks, path)
       THEN /\ notebooks' = WithNotebook(notebooks, path,
                                         LoadedHandle(path, nLoaded + 1))
            /\ nLoaded' = nLoaded + 1
       ELSE UNCHANGED <<notebooks, nLoaded>>
    /\ currentNotebook' = <<path>>
    /\ UNCHANGED <<about, svSent>>

CreateNotebook(path, content) ==
    SendOnly("CreateNotebook", <<path, content>>,
             [type |-> "CreateNotebook", path |-> path, content |-> content])

RenameNotebook(oldPath, newPath) ==
    SendOnly("RenameNotebook", <<oldPath, newPath>>,
             [type |-> "RenameNotebook", path |-> oldPath, newPath |-> newPath])

CopyNotebook(oldPath, newPath) ==
    SendOnly("CopyNotebook", <<oldPath, newPath>>,
             [type |-> "CopyNotebook", path |-> oldPath, newPath |-> newPath])

\* faulty variant of DeleteNotebook: the notebook is also dropped locally
DeleteNotebook_DropsLocal(path) ==
    /\ SvDispatched("DeleteNotebook", <<path>>)
    /\ svSent' = Append(svSent, [type |-> "DeleteNotebook", path |-> path])
    /\ notebooks' = [k \in (DOMAIN notebooks) \ {path} |-> notebooks[k]]
    /\ currentNotebook' = IF currentNotebook = <<path>> THEN <<>>
                          ELSE currentNotebook
    /\ UNCHANGED <<about, nLoaded>>

DeleteNotebook(path) ==
    SendOnly("DeleteNotebook", <<path>>,
             [type |-> "DeleteNotebook", path |-> path])

ViewAbout(section) ==
    /\ SvDispatched("ViewAbout", <<section>>)
    /\ about' = <<section>>
    /\ UNCHANGED <<notebooks, currentNotebook, svSent, nLoaded>>

\* path is <<>> (undefined) or <<p>>
SetSelectedNotebook(path) ==
    /\ SvDispatched("SetSelectedNotebook", <<path>>)
    /\ currentNotebook' = path
    /\ UNCHANGED <<notebooks, about, svSent, nLoaded>>

InitServer ==
    /\ cells = <<>>
    /\ NotebookState0
    /\ ServerState0
    /\ BackupState0
    /\ ObserverState0

NextServer ==
    \/ RequestNotebooksList
    \/ \E p \in Paths : LoadNotebook(p)
    \/ \E p \in Paths : CreateNotebook(p, Undefined)
    \/ \E p, q \in Paths : RenameNotebook(p, q)
    \/ \E p, q \in Paths : CopyNotebook(p, q)
    \/ \E p \in Paths : DeleteNotebook(p)
    \/ \E sec \in Sections : ViewAbout(sec)
    \/ \E p \in { <<>> } \cup { <<q>> : q \in Paths } : SetSelectedNotebook(p)

SpecServer == InitServer /\ [][NextServer]_vars

\* ------------------------------------------------------------- ClientBackup
BACKUPS_PER_NOTEBOOK == 100
BACKUPS_PER_DAY == 10

\* faulty variant of ClearedCells: the results of the input cell are kept
ClearedCells_KeepsResults(cs) ==
    [i \in 1..Len(cs) |->
        [id |-> cs[i].id, language |-> cs[i].language,
         content |-> cs[i].content, results |-> cs[i].results,
         metadata |-> cs[i].metadata, comments |-> cs[i].comments]]

\* cells.map(cell => new NotebookCell(cell.id, cell.language, cell.content,
\*                                    [], cell.metadata, cell.comments))
ClearedCells(cs) ==
    [i \in 1..Len(cs) |->
        [id |-> cs[i].id, language |-> cs[i].language,
         content |-> cs[i].content, results |-> <<>>,
         metadata |-> cs[i].metadata, comments |-> cs[i].comments]]

\* Identity of the objects Backup.equals compares with ===: an array or
\* object is tagged by the place that allocated it, `undefined` by itself.
RefOf(site, value) == IF value = Undefined THEN Undefined ELSE site

\* new Backup(path, clearedCells, config) as addNb builds it: ts = Date.now(),
\* updates = [], cells the array cells.map allocated, config the caller's
NewBackup(path, cs, config, ts) ==
    [path |-> path, cells |-> ClearedCells(cs), config |-> config, ts |-> ts,
     updates |-> <<>>,
     refs |-> [cells |-> "addNb:cells.map", config |-> RefOf("addNb:config", config),
               updates |-> "Backup:updates"]]

\* Backup.fromI of a record read by get(path): the store hands out a
\* structured clone, so its arrays and objects are allocated by the read
BackupFromI(iBackup) ==
    [path |-> iBackup.path, cells |-> iBackup.cells, config |-> iBackup.config,
     ts |-> iBackup.ts, updates |-> iBackup.updates,
     refs |-> [cells |-> "get:cells", config |-> RefOf("get:config", iBackup.config),
               updates |-> "get:updates"]]

\* the record set(path, ...) stores for a Backup (structured clone)
BackupToI(backup) ==
    [path |-> backup.path, cells |-> backup.cells, config |-> backup.config,
     ts |-> backup.ts, updates |-> backup.updates]

\* Backup.equals: === on path, cells, config and updates
BackupEquals(this, that) ==
    /\ this.path = that.path
    /\ this.refs.cells = that.refs.cells
    /\ this.refs.config = that.refs.config
    /\ this.refs.updates = that.refs.updates

\* faulty variant of BackupAddUpdate: the update is put in front
BackupAddUpdate_Prepends(backup, upd, ts) ==
    [backup EXCEPT !.updates = <<[ts |-> ts, upd |-> upd]>> \o @]

\* Backup.addUpdate: this.updates.push({ts, upd})
BackupAddUpdate(backup, upd, ts) ==
    [backup EXCEPT !.updates = Append(@, [ts |-> ts, upd |-> upd])]

\* new Backups(path)
EmptyBackups(path) == [path |-> path, backups |-> << >>]

\* Backups.fromI
FromI(iBackups) ==
    [path |-> iBackups.path,
     backups |-> [day \in DOMAIN iBackups.backups |->
                    [i \in 1..Len(iBackups.backups[day]) |->
                        BackupFromI(iBackups.backups[day][i])]]]

\* Backups.toI, as set(path, ...) stores it
ToI(bs) ==
    [path |-> bs.path,
     backups |-> [day \in DOMAIN bs.backups |->
                    [i \in 1..Len(bs.backups[day]) |->
                        BackupToI(bs.backups[day][i])]]]

\* Math.min(...Object.keys(this.backups).map(i => parseInt(i)))
OldestDay(bs) ==
    CHOOSE d \in DOMAIN bs.backups : \A e \in DOMAIN bs.backups : d <= e

\* delete this.backups[day]
DeleteDay(bs, day) ==
    [bs EXCEPT !.backups = [d \in (DOMAIN bs.backups) \ {day} |-> bs.backups[d]]]

\* this.backups[day] = bucket
WithDay(bs, day, bucket) ==
    [bs EXCEPT !.backups = [d \in (DOMAIN bs.backups) \cup {day} |->
                              IF d = day THEN bucket ELSE bs.backups[d]]]

\* Backups.addBackup. todayTs() is read anew at every use, and days are the
\* values it gives in turn: at line 113, at line 116 or 117, at line 118 or
\* 120, and at line 121. this.backups[d] of a day without a bucket is
\* undefined, and length, push or shift of undefined throws a TypeError.
\* Gives whether the call threw, the Backups object as the call leaves it,
\* and the day the backup was put under.
addBackup(bs, backup, days) ==
    LET kept == IF Cardinality(DOMAIN bs.backups) > BACKUPS_PER_NOTEBOOK
                THEN DeleteDay(bs, OldestDay(bs))
                ELSE bs
        Has(b, d) == d \in DOMAIN b.backups
        Shift(bucket) == IF bucket = <<>> THEN <<>> ELSE Tail(bucket)
        Returns(b, d) == [threw |-> FALSE, backups |-> b, day |-> d]
        Throws(b) == [threw |-> TRUE, backups |-> b, day |-> days[1]]
    IN  IF ~Has(kept, days[1])
        THEN Returns(WithDay(kept, days[2], <<backup>>), days[2])
        ELSE IF ~Has(kept, days[2])
        THEN Throws(kept)
        ELSE IF Len(kept.backups[days[2]]) < BACKUPS_PER_DAY
        THEN IF ~Has(kept, days[3])
             THEN Throws(kept)
             ELSE Returns(WithDay(kept, days[3],
                                  Append(kept.backups[days[3]], backup)),
                          days[3])
        ELSE IF ~Has(kept, days[3])
        THEN Throws(kept)
        ELSE LET shifted == WithDay(kept, days[3], Shift(kept.backups[days[3]]))
             IN  IF ~Has(shifted, days[4])
                 THEN Throws(shifted)
                 ELSE Returns(WithDay(shifted, days[4],
                                      Append(shifted.backups[days[4]], backup)),
                              days[4])

\* Backups.latestBackup: <<>> (undefined) or <<backup>>
latestBackup(bs, day) ==
    IF day \in DOMAIN bs.backups
    THEN LET todayBackups == bs.backups[day]
         IN  IF todayBackups = <<>> THEN <<>>
             ELSE <<todayBackups[Len(todayBackups)]>>
    ELSE IF DOMAIN bs.backups = {} THEN <<>>
    ELSE LET newestDay == CHOOSE d \in DOMAIN bs.backups :
                             \A e \in DOMAIN bs.backups : e <= d
             newestBackups == bs.backups[newestDay]
         IN  IF newestBackups = <<>> THEN <<>>
             ELSE <<newestBackups[Len(newestBackups)]>>

\* faulty variant of LatestDay: without a bucket for today the oldest day is
\* taken
LatestDay_Oldest(bs, day) ==
    IF day \in DOMAIN bs.backups THEN day
    ELSE CHOOSE d \in DOMAIN bs.backups : \A e \in DOMAIN bs.backups : d <= e

\* the day latestBackup takes its result from
LatestDay(bs, day) ==
    IF day \in DOMAIN bs.backups THEN day
    ELSE CHOOSE d \in DOMAIN bs.backups : \A e \in DOMAIN bs.backups : e <= d

\* Backups.addUpdate when a latest backup exists: latest.addUpdate(upd)
addUpdate(bs, upd, day, ts) ==
    LET d == LatestDay(bs, day)
        bucket == bs.backups[d]
    IN  WithDay(bs, d, [bucket EXCEPT ![Len(bucket)] =
                           BackupAddUpdate(bucket[Len(bucket)], upd, ts)])

\* idb-keyval set(key, value)
StoreSet(st, key, value) ==
    [k \in (DOMAIN st) \cup {key} |-> IF k = key THEN value ELSE st[k]]

\* Every idb-keyval call (get, set, keys, clear) is a transaction of its own
\* that settles some time after it was issued: a ClientBackup call returns to
\* the event loop at each of them, and the callbacks of other calls run in
\* between.

\* position of the next step in the order of all steps of all calls: one
\* more than the store transactions the calls have issued or settled so far
ThisStep ==
    LET RECURSIVE StepsOf(_)
        StepsOf(cs) ==
            IF cs = <<>> THEN 0 ELSE Head(cs).steps + StepsOf(Tail(cs))
    IN  StepsOf(calls) + 1

\* a ClientBackup call as issued: the synchronous part of the static method.
\* addNb builds its Backup, with ts = Date.now(), before it calls get. base
\* is the store before the first call was issued.
NewCall(op, path, arg, ts) ==
    [op |-> op, path |-> path, arg |-> arg,
     pc |-> IF op = "clearBackups" THEN "keys" ELSE "get",
     ts |-> ts, day |-> today, days |-> <<>>, steps |-> 1,
     issuedAt |-> ThisStep, readAt |-> 0, wroteAt |-> 0, doneAt |-> 0,
     base |-> IF calls = <<>> THEN store ELSE calls[1].base,
     seen |-> << >>, toWrite |-> <<>>,
     keys |-> {}, pending |-> {}, wiped |-> << >>, result |-> <<>>, outcome |-> "pending"]

\* a step of a call that leaves the clock and the day alone
CallStep ==
    /\ UNCHANGED <<today, nOps>>
    /\ UNCHANGED <<nbVars, svVars, socketStatus>>

\* the promise of call c settles
Settled(c, outcome, result) ==
    [c EXCEPT !.pc = "done", !.outcome = outcome, !.result = result,
              !.doneAt = ThisStep]

\* the arguments of call c as the caller passed them
ArgsOf(c) ==
    IF c.op = "addNb" THEN <<c.path, c.arg[1], c.arg[2]>>
    ELSE IF c.op = "updateNb" THEN <<c.path, c.arg>>
    ELSE <<c.path>>

\* the call that settled last: its arguments and outcome, the store before
\* the step that settled it, the values todayTs() gave in its callback, the
\* day its backup or update was put under and the ts it gave to it
BkSnapshot(c) ==
    [op |-> c.op, args |-> ArgsOf(c), outcome |-> c.outcome, store |-> store,
     today |-> c.day, days |-> c.days, now |-> c.ts]

\* ClientBackup.addNb, updateNb, getBackups and clearBackups up to their
\* first store call; Date.now() has moved on by tick since it was last read.
\* awaited: the caller makes the call after the promises of its earlier
\* calls have settled
Issue(op, path, arg, tick, awaited) ==
    /\ Len(calls) < MaxCalls
    /\ awaited => \A k \in DOMAIN calls : calls[k].pc = "done"
    /\ calls' = Append(calls, NewCall(op, path, arg, now + tick))
    /\ now' = now + tick
    /\ CallStep
    /\ UNCHANGED <<store, bkLast>>

addNb(path, cs, config, tick, awaited) ==
    Issue("addNb", path, <<cs, config>>, tick, awaited)
updateNb(path, upd, awaited) == Issue("updateNb", path, upd, 0, awaited)
getBackups(path) == Issue("getBackups", path, <<>>, 0, FALSE)
clearBackups == Issue("clearBackups", "", <<>>, 0, FALSE)

\* the reads of todayTs() in the callback of get(path) in addNb: line 129
\* (latestBackup), then lines 113, 116 or 117, 118 or 120, and 121
\* (addBackup); the callback in updateNb reads it at line 129 alone
TodayReads == 5

\* what the callback of get(path) hands to set(path, ...): the record read,
\* with the call's backup or update added; <<>> when the callback throws
\* before it reaches set. days are the values todayTs() gives in turn.
ThenValue(c, st, days) ==
    IF c.op = "addNb"
    THEN LET backups == IF c.path \in DOMAIN st THEN FromI(st[c.path])
                        ELSE EmptyBackups(c.path)
             added == addBackup(backups,
                                NewBackup(c.path, c.arg[1], c.arg[2], c.ts),
                                Tail(days))
         IN  IF added.threw THEN <<>> ELSE <<ToI(added.backups)>>
    ELSE <<ToI(addUpdate(FromI(st[c.path]), c.arg, days[1], c.ts))>>

\* addNb: the callback of get(path)
addNbThen(c, days) ==
    LET backup == NewBackup(c.path, c.arg[1], c.arg[2], c.ts)
        backups == IF c.path \in DOMAIN store THEN FromI(store[c.path])
                   ELSE EmptyBackups(c.path)
        latest == latestBackup(backups, days[1])
        added == addBackup(backups, backup, Tail(days))
        read == [c EXCEPT !.seen = store, !.readAt = ThisStep,
                          !.day = added.day, !.days = days, !.steps = @ + 1]
    IN  IF latest # <<>> /\ BackupEquals(latest[1], backup)
        THEN Settled([read EXCEPT !.day = days[1]], "resolved", <<ToI(backups)>>)
        ELSE IF added.threw
        THEN Settled(read, "rejected", <<>>)
        ELSE [read EXCEPT !.pc = "set",
                          !.toWrite = ThenValue(c, store, days)]

\* updateNb: the callback of get(path); Backup.addUpdate reads Date.now(),
\* which gives ts
updateNbThen(c, ts, days) ==
    LET read == [c EXCEPT !.seen = store, !.readAt = ThisStep,
                          !.day = days[1], !.days = days, !.ts = ts,
                          !.steps = @ + 1]
    IN  IF c.path \in DOMAIN store
           /\ latestBackup(FromI(store[c.path]), days[1]) # <<>>
        THEN [read EXCEPT !.pc = "set",
                          !.toWrite = ThenValue(read, store, days)]
        ELSE Settled(read, "rejected", <<>>)

\* faulty variant of getBackupsThen: a missing record is replaced by an
\* empty one
getBackupsThen_Substitutes(path, st) ==
    IF path \in DOMAIN st
    THEN [outcome |-> "resolved", result |-> <<st[path]>>]
    ELSE [outcome |-> "resolved", result |-> <<EmptyBackups(path)>>]

\* getBackups: the callback of get(path)
getBackupsThen(path, st) ==
    IF path \in DOMAIN st
    THEN [outcome |-> "resolved", result |-> <<st[path]>>]
    ELSE [outcome |-> "rejected", result |-> <<>>]

\* get(path) of call i settles and its callback runs; Date.now() has moved
\* on by tick when updateNb reads it, and midnight passes after `before` of
\* the reads of todayTs() in the callback of addNb (before = TodayReads: the
\* day does not change while the callback runs)
GetSettles(i, tick, before) ==
    /\ i \in DOMAIN calls
    /\ calls[i].pc = "get"
    /\ tick = 0 \/ calls[i].op = "updateNb"
    /\ before \in 1..TodayReads
    /\ before < TodayReads => calls[i].op = "addNb" /\ nOps < MaxBackupOps
    /\ LET c == calls[i]
           days == [k \in 1..TodayReads |->
                      IF k <= before THEN today ELSE today + 1]
           got == getBackupsThen(c.path, store)
           next == IF c.op = "addNb" THEN addNbThen(c, days)
                   ELSE IF c.op = "updateNb"
                   THEN updateNbThen(c, now + tick, days)
                   ELSE Settled([c EXCEPT !.seen = store,
                                          !.readAt = ThisStep, !.day = today,
                                          !.days = days, !.steps = @ + 1],
                                got.outcome, got.result)
       IN  /\ calls' = [calls EXCEPT ![i] = next]
           /\ bkLast' = IF next.pc = "done" THEN BkSnapshot(next) ELSE bkLast
    /\ now' = now + tick
    /\ today' = IF before < TodayReads THEN today + 1 ELSE today
    /\ nOps' = IF before < TodayReads THEN nOps + 1 ELSE nOps
    /\ UNCHANGED <<nbVars, svVars, socketStatus>>
    /\ UNCHANGED store

\* faulty variant of WrittenValue: set works on the record as it is in the
\* store when the write runs
WrittenValue_Fresh(c, st) == ThenValue(c, st, c.days)[1]

\* the value of set(path, backups.toI()): computed when get settled
WrittenValue(c, st) == c.toWrite[1]

\* set(path, ...) of call i settles
SetSettles(i) ==
    /\ i \in DOMAIN calls
    /\ calls[i].pc = "set"
    /\ LET c == calls[i]
           written == WrittenValue(c, store)
           next == Settled([c EXCEPT !.wroteAt = ThisStep, !.steps = @ + 1],
                           "resolved", <<written>>)
       IN  /\ store' = StoreSet(store, c.path, written)
           /\ calls' = [calls EXCEPT ![i] = next]
           /\ bkLast' = BkSnapshot(next)
    /\ CallStep
    /\ UNCHANGED now

\* allBackups: keys() settles and its callback issues one getBackups(k) for
\* every key read, each a get(k) of its own. Without keys Promise.all([])
\* is resolved already, and clearBackups issues clear() before the turn ends.
KeysSettle(i) ==
    /\ i \in DOMAIN calls
    /\ calls[i].pc = "keys"
    /\ calls' = [calls EXCEPT ![i] =
           [@ EXCEPT !.pc = IF DOMAIN store = {} THEN "clear" ELSE "gets",
                     !.keys = DOMAIN store, !.pending = DOMAIN store,
                     !.result = << << >> >>, !.steps = @ + 1]]
    /\ CallStep
    /\ UNCHANGED <<store, now, bkLast>>

\* allBackups: the get(k) of one key read settles. Its getBackups callback
\* puts the record under backups[k], or throws when there is none:
\* Promise.all then rejects, and so does clearBackups, whatever the gets
\* still in flight find. When the last of the gets has settled Promise.all
\* resolves and clearBackups issues clear() before the turn ends.
GetsSettle(i, k) ==
    /\ i \in DOMAIN calls
    /\ calls[i].pc = "gets"
    /\ k \in calls[i].pending
    /\ LET c == calls[i]
           got == getBackupsThen(k, store)
           backups == c.result[1]
           read == [c EXCEPT !.pending = @ \ {k}, !.steps = @ + 1]
           next ==
             IF got.outcome = "rejected"
             THEN Settled(read, "rejected", <<>>)
             ELSE [read EXCEPT
                     !.pc = IF c.pending = {k} THEN "clear" ELSE "gets",
                     !.result = <<[q \in (DOMAIN backups) \cup {k} |->
                                     IF q = k THEN got.result[1]
                                     ELSE backups[q]]>>]
       IN  /\ calls' = [calls EXCEPT ![i] = next]
           /\ bkLast' = IF next.pc = "done" THEN BkSnapshot(next) ELSE bkLast
    /\ CallStep
    /\ UNCHANGED <<store, now>>

\* clearBackups: clear() settles
ClearSettles(i) ==
    /\ i \in DOMAIN calls
    /\ calls[i].pc = "clear"
    /\ LET next == Settled([calls[i] EXCEPT !.wiped = store,
                                            !.wroteAt = ThisStep,
                                            !.steps = @ + 1],
                           "resolved", calls[i].result)
       IN  /\ calls' = [calls EXCEPT ![i] = next]
           /\ bkLast' = BkSnapshot(next)
    /\ store' = << >>
    /\ CallStep
    /\ UNCHANGED now

\* midnight passes: todayTs() moves to the next day
NextDay ==
    /\ nOps < MaxBackupOps
    /\ nOps' = nOps + 1
    /\ today' = today + 1
    /\ bkLast' = [op |-> "nextDay", args |-> <<>>, outcome |-> "none",
                  store |-> store, today |-> today, days |-> <<>>,
                  now |-> now]
    /\ UNCHANGED <<store, now>>
    /\ UNCHANGED <<nbVars, svVars, xVars>>

\* the cell lists and configurations handed to addNb
BackupCell(id, results) ==
    [id |-> id, language |-> "scala", content |-> "", results |-> results,
     metadata |-> "m0", comments |-> << >>]
\* the (cells, config) pairs handed to addNb
AddNbArgs ==
    { << <<>>, "conf1" >>,
      << <<BackupCell(1, <<"out">>), BackupCell(0, <<>>)>>, Undefined >> }
\* the (path, cells, config) triples of the awaited addNb calls
AwaitedAdds ==
    { <<"a", <<BackupCell(1, <<"out">>), BackupCell(0, <<>>)>>, Undefined>>,
      <<"b", <<>>, "conf1">> }
Updates == { "upd1" }
\* by how much Date.now() has moved on between two reads of it
Ticks == {0, 1}

\* Stores a run of addNb calls leaves behind: one backup on each of the days
\* 1..nDays, and nLast backups on day nDays
SeededBucket(day, n, firstTs) ==
    [i \in 1..n |->
        BackupToI(NewBackup("a", <<BackupCell(0, <<>>)>>, Undefined,
                            firstTs + i - 1))]
SeededBackups(nDays, nLast) ==
    [path |-> "a",
     backups |-> [day \in 1..nDays |->
                    IF day < nDays THEN SeededBucket(day, 1, day)
                    ELSE SeededBucket(day, nLast, day)]]
\* the (nDays, nLast) of the seeded stores: at and just below the two limits
SeedShapes ==
    { <<1, 1>>, <<1, BACKUPS_PER_DAY>>,
      <<BACKUPS_PER_NOTEBOOK - 1, BACKUPS_PER_DAY - 1>>,
      <<BACKUPS_PER_NOTEBOOK, 1>>,
      <<BACKUPS_PER_NOTEBOOK, BACKUPS_PER_DAY>> }

InitBackup ==
    /\ cells = <<>>
    /\ NotebookState0
    /\ ServerState0
    /\ ObserverState0
    /\ nOps = 0
    /\ bkLast = [op |-> "none"]
    /\ \/ /\ store = << >>
          /\ today = 1
          /\ now = 1
       \/ \E shape \in SeedShapes :
             /\ store = [p \in {"a"} |-> SeededBackups(shape[1], shape[2])]
             /\ today \in {shape[1], shape[1] + 1}
             /\ now = shape[1] + shape[2] - 1

\* a caller that awaits every call before it makes the next one
NextBackup ==
    \/ \E a \in AwaitedAdds, tick \in Ticks : addNb(a[1], a[2], a[3], tick, TRUE)
    \/ \E p \in Paths, u \in Updates : updateNb(p, u, TRUE)
    \/ \E i \in 1..MaxCalls, tick \in Ticks, before \in 1..TodayReads :
          GetSettles(i, tick, before)
    \/ \E i \in 1..MaxCalls : SetSettles(i)
    \/ NextDay

SpecBackup == InitBackup /\ [][NextBackup]_vars

\* ------------------------------------------- ClientBackup calls in flight
InitAsync ==
    /\ cells = <<>>
    /\ NotebookState0
    /\ ServerState0
    /\ ObserverState0
    /\ nOps = 0
    /\ bkLast = [op |-> "none"]
    /\ today = 1
    /\ now = 1
    /\ store \in { << >>, [p \in {"a"} |-> SeededBackups(1, 1)] }

\* callers that do not wait for one another, within one day
NextAsync ==
    \/ \E p \in Paths, a \in AddNbArgs, tick \in Ticks :
          addNb(p, a[1], a[2], tick, FALSE)
    \/ \E p \in Paths, u \in Updates : updateNb(p, u, FALSE)
    \/ \E p \in Paths : getBackups(p)
    \/ clearBackups
    \/ \E i \in 1..MaxCalls, tick \in Ticks : GetSettles(i, tick, TodayReads)
    \/ \E i \in 1..MaxCalls : SetSettles(i)
    \/ \E i \in 1..MaxCalls : KeysSettle(i)
    \/ \E i \in 1..MaxCalls, k \in Paths : GetsSettle(i, k)
    \/ \E i \in 1..MaxCalls : ClearSettles(i)

SpecAsync == InitAsync /\ [][NextAsync]_vars

\* ------------------------------------ the other branches of dispatch
NotebookPath == "a"
Comments == {"c1"}
CommentIds == {"k1"}
Ranges == {"r1"}
Outputs == {"o1"}
Versions == {0}
KernelCommands == {"start", "kill"}
SocketStatuses == {"connected", "disconnected", "connecting"}

\* a dispatch that changes no field of the notebook state and hands msgs
\* (no message, or one) to socket.send
Sends(action, args, msgs) ==
    /\ Dispatched(action, args)
    /\ sent' = sent \o msgs
    /\ UNCHANGED <<cells, globalVersion, localVersion, editBuffer,
                   activeCompletion, activeSignature, log, nextReq, nMutating,
                   activeCell>>

\* { ...cell, [field]: value }
WithField(cell, field, value) ==
    [k \in (DOMAIN cell) \cup {field} |-> IF k = field THEN value ELSE cell[k]]

\* this.socket.reconnect(onlyIfClosed): nothing is sent by the dispatcher
Reconnect(onlyIfClosed) == Sends("Reconnect", <<onlyIfClosed>>, <<>>)

StartKernelMsg(level) == [type |-> "StartKernel", level |-> level]

\* confirmed is the answer to confirm("Kill running kernel? ...")
KernelCommand(command, confirmed) ==
    Sends("KernelCommand", <<command>>,
          IF command = "start" THEN <<StartKernelMsg("NoRestart")>>
          ELSE IF command = "kill" /\ confirmed THEN <<StartKernelMsg("Kill")>>
          ELSE <<>>)

CreateCommentMsg(gv, lv, cellId, comment) ==
    [type |-> "CreateComment", globalVersion |-> gv, localVersion |-> lv,
     cellId |-> cellId, comment |-> comment]

\* faulty variant of CreateComment: the comment is sent as an edit, with the
\* next localVersion
CreateComment_AsEdit(cellId, comment) ==
    /\ Dispatched("CreateComment", <<cellId, comment>>)
    /\ sent' = Append(sent, CreateCommentMsg(globalVersion, localVersion + 1,
                                             cellId, comment))
    /\ localVersion' = localVersion + 1
    /\ UNCHANGED <<cells, globalVersion, editBuffer,
                   activeCompletion, activeSignature, log, nextReq, nMutating,
                   activeCell>>

CreateComment(cellId, comment) ==
    Sends("CreateComment", <<cellId, comment>>,
          <<CreateCommentMsg(globalVersion, localVersion, cellId, comment)>>)

UpdateCommentMsg(gv, lv, cellId, commentId, range, content) ==
    [type |-> "UpdateComment", globalVersion |-> gv, localVersion |-> lv,
     cellId |-> cellId, commentId |-> commentId, range |-> range,
     content |-> content]

UpdateComment(cellId, commentId, range, content) ==
    Sends("UpdateComment", <<cellId, commentId, range, content>>,
          <<UpdateCommentMsg(globalVersion, localVersion, cellId, commentId,
                             range, content)>>)

DeleteCommentMsg(gv, lv, cellId, commentId) ==
    [type |-> "DeleteComment", globalVersion |-> gv, localVersion |-> lv,
     cellId |-> cellId, commentId |-> commentId]

DeleteComment(cellId, commentId) ==
    Sends("DeleteComment", <<cellId, commentId>>,
          <<DeleteCommentMsg(globalVersion, localVersion, cellId, commentId)>>)

CurrentSelectionMsg(cellId, range) ==
    [type |-> "CurrentSelection", cellId |-> cellId, range |-> range]

SetCurrentSelection(cellId, range) ==
    Sends("SetCurrentSelection", <<cellId, range>>,
          <<CurrentSelectionMsg(cellId, range)>>)

SetCellOutputMsg(gv, lv, cellId, output) ==
    [type |-> "SetCellOutput", globalVersion |-> gv, localVersion |-> lv,
     cellId |-> cellId, output |-> output]

SetCellOutput(cellId, output) ==
    Sends("SetCellOutput", <<cellId, output>>,
          <<SetCellOutputMsg(globalVersion, localVersion, cellId, output)>>)

SetCellLanguageMsg(gv, lv, cellId, language) ==
    [type |-> "SetCellLanguage", globalVersion |-> gv, localVersion |-> lv,
     cellId |-> cellId, language |-> language]

SetCellLanguage(cellId, language) ==
    /\ Dispatched("SetCellLanguage", <<cellId, language>>)
    /\ sent' = Append(sent, SetCellLanguageMsg(globalVersion, localVersion,
                                               cellId, language))
    /\ cells' = [i \in 1..Len(cells) |->
                    IF cells[i].id = cellId
                    THEN [cells[i] EXCEPT !.language = language]
                    ELSE cells[i]]
    /\ UNCHANGED <<globalVersion, localVersion, editBuffer,
                   activeCompletion, activeSignature, log, nextReq, nMutating,
                   activeCell>>

NotebookVersionMsg(path, version) ==
    [type |-> "NotebookVersion", path |-> path, version |-> version]

RequestNotebookVersion(version) ==
    Sends("RequestNotebookVersion", <<version>>,
          <<NotebookVersionMsg(NotebookPath, version)>>)

CancelTasksMsg(path) == [type |-> "CancelTasks", path |-> path]

RequestCancelTasks ==
    Sends("RequestCancelTasks", <<>>, <<CancelTasksMsg(NotebookPath)>>)

ClearOutputMsg == [type |-> "ClearOutput"]

RequestClearOutput == Sends("RequestClearOutput", <<>>, <<ClearOutputMsg>>)

CurrentSelection(cellId, range) ==
    /\ Dispatched("CurrentSelection", <<cellId, range>>)
    /\ sent' = Append(sent, CurrentSelectionMsg(cellId, range))
    /\ cells' = [i \in 1..Len(cells) |->
                    WithField(cells[i], "currentSelection",
                              IF cells[i].id = cellId THEN range ELSE Undefined)]
    /\ UNCHANGED <<globalVersion, localVersion, editBuffer,
                   activeCompletion, activeSignature, log, nextReq, nMutating,
                   activeCell>>

ClearCellEdits(id) ==
    /\ Dispatched("ClearCellEdits", <<id>>)
    /\ cells' = [i \in 1..Len(cells) |->
                    IF cells[i].id = id
                    THEN WithField(cells[i], "pendingEdits", <<>>)
                    ELSE cells[i]]
    /\ UNCHANGED <<globalVersion, localVersion, editBuffer,
                   activeCompletion, activeSignature, sent, log, nextReq,
                   nMutating, activeCell>>

\* the branch is empty
DownloadNotebook == Sends("DownloadNotebook", <<>>, <<>>)

KernelStatusMsg ==
    [type |-> "KernelStatus",
     update |-> [type |-> "KernelBusyState", busy |-> FALSE, alive |-> FALSE]]

\* faulty variant of StatusObserver: the request is sent on every status
StatusObserver_AnyStatus(next) == <<KernelStatusMsg>>

\* the observer the constructor adds to socket.view("status"): the messages
\* it sends when the status becomes next
StatusObserver(next) ==
    IF next = "connected" THEN <<KernelStatusMsg>> ELSE <<>>

\* the socket's status changes to next and the observers of the view run
StatusChanged(next) ==
    /\ nDispatch < MaxDispatches
    /\ next # socketStatus
    /\ socketStatus' = next
    /\ nDispatch' = nDispatch + 1
    /\ last' = Snapshot("StatusChanged", <<next>>)
    /\ thrown' = "none"
    /\ sent' = sent \o StatusObserver(next)
    /\ UNCHANGED <<cells, globalVersion, localVersion, editBuffer,
                   activeCompletion, activeSignature, log, nextReq, nMutating,
                   activeCell>>
    /\ UNCHANGED <<svVars, bkVars, calls>>

\* runToActiveCell. state.cells.splice(0, activeIdx) removes the cells before
\* the active cell from the array the state holds and returns them; the
\* RequestCellRun dispatched next maps over what is left. On a frozen array
\* splice raises a TypeError instead.
runToActiveCell(frozen) ==
    LET id == IF activeCell # <<>> THEN <<activeCell[1].id>> ELSE <<>>
        activeIdx == FindIndex(cells, id)
        nRemoved == IF activeIdx < 0 THEN 0 ELSE activeIdx
        cellsToRun == Ids(SubSeq(cells, 1, nRemoved))
        left == SubSeq(cells, nRemoved + 1, Len(cells))
    IN  IF frozen
        THEN Threw("runToActiveCell", <<>>, "TypeError")
        ELSE IF Len(cellsToRun) = 0
        THEN Skipped("runToActiveCell", <<>>)
        ELSE /\ Dispatched("runToActiveCell", <<>>)
             /\ sent' = Append(sent, RunCellMsg(RunTargets(left, cellsToRun)))
             /\ cells' = MarkQueued(left, RunTargets(left, cellsToRun))
             /\ UNCHANGED <<globalVersion, localVersion, editBuffer,
                            activeCompletion, activeSignature, log, nextReq,
                            nMutating, activeCell>>

\* globalVersion of a notebook as loaded
LoadedGlobalVersions == {0, 2}

\* a loaded notebook after MaxDispatches - MaxSteps dispatches of
\* DownloadNotebook, which leave every field as it was
InitDispatch ==
    /\ cells = <<LoadedCell(1, [queued |-> FALSE, results |-> <<"out">>,
                                error |-> TRUE]),
                 LoadedCell(0, [queued |-> FALSE, results |-> <<>>,
                                error |-> FALSE])>>
    /\ globalVersion \in LoadedGlobalVersions
    /\ localVersion = 0
    /\ editBuffer = EmptyEditBuffer
    /\ activeCompletion = NoRequest
    /\ activeSignature = NoRequest
    /\ sent = <<>>
    /\ log = <<>>
    /\ nextReq = 1
    /\ nMutating = 0
    /\ nDispatch = MaxDispatches - MaxSteps
    /\ last = [action |-> "DownloadNotebook", args |-> <<>>, cells |-> cells,
               localVersion |-> localVersion, globalVersion |-> globalVersion,
               editBuffer |-> editBuffer, nSent |-> 0]
    /\ activeCell = <<>>
    /\ thrown = "none"
    /\ ServerState0
    /\ BackupState0
    /\ ObserverState0

NextDispatch ==
    \/ \E b \in BOOLEAN : Reconnect(b)
    \/ \E c \in KernelCommands, ok \in BOOLEAN : KernelCommand(c, ok)
    \/ \E id \in IdRange, c \in Comments : CreateComment(id, c)
    \/ \E id \in IdRange, k \in CommentIds, r \in Ranges, c \in Comments :
          UpdateComment(id, k, r, c)
    \/ \E id \in IdRange, k \in CommentIds : DeleteComment(id, k)
    \/ \E id \in IdRange, r \in Ranges : SetCurrentSelection(id, r)
    \/ \E id \in IdRange, o \in Outputs : SetCellOutput(id, o)
    \/ \E id \in IdRange, l \in Languages : SetCellLanguage(id, l)
    \/ CreateCell("scala", "", "m0", 0)
    \/ UpdateCell(0, <<"edit">>, "x", Undefined)
    \/ \E id \in IdRange : DeleteCell(id)
    \/ \E c \in Configs : UpdateConfig(c)
    \/ RequestCompletions(0, 0)
    \/ RequestSignature(0, 0)
    \/ \E v \in Versions : RequestNotebookVersion(v)
    \/ \E ids \in {<<>>, <<0>>} : RequestCellRun(ids)
    \/ RequestCancelTasks
    \/ RequestClearOutput
    \/ \E id \in {<<>>, <<0>>, <<1>>}, r \in {"none", "below"} :
          SetSelectedCell(id, r)
    \/ \E id \in IdRange, r \in Ranges : CurrentSelection(id, r)
    \/ \E id \in IdRange : ClearCellEdits(id)
    \/ DownloadNotebook
    \/ \E next \in SocketStatuses : StatusChanged(next)
    \/ insertCell("below", <<>>)
    \/ deleteCell(<<>>)
    \/ runActiveCell
    \/ \E frozen \in BOOLEAN : runToActiveCell(frozen)
    \/ LoadNotebook(NotebookPath)

SpecDispatch == InitDispatch /\ [][NextDispatch]_vars

\* ------------------------------------------------ the branches of match
\* the subclasses of UIAction
UIActions ==
    {"KernelCommand", "Reconnect", "CreateComment", "UpdateComment",
     "DeleteComment", "CreateCell", "UpdateCell", "DeleteCell", "UpdateConfig",
     "LoadNotebook", "CreateNotebook", "RenameNotebook", "CopyNotebook",
     "DeleteNotebook", "SetCurrentSelection", "SetCellOutput",
     "SetCellLanguage", "RequestCompletions", "RequestSignature",
     "RequestNotebookVersion", "RequestCellRun", "RequestCancelTasks",
     "RequestClearOutput", "RequestNotebooksList", "SetSelectedCell",
     "CurrentSelection", "ClearCellEdits", "DownloadNotebook",
     "SetSelectedNotebook", "ViewAbout"}

\* faulty variant of NotebookBranches: no branch for DownloadNotebook
NotebookBranches_NoDownload ==
    <<"Reconnect", "KernelCommand", "CreateComment", "UpdateComment",
      "DeleteComment", "SetCurrentSelection", "SetCellOutput",
      "SetCellLanguage", "CreateCell", "UpdateCell", "DeleteCell",
      "UpdateConfig", "RequestCompletions", "RequestSignature",
      "RequestNotebookVersion", "RequestCellRun", "RequestCancelTasks",
      "RequestClearOutput", "SetSelectedCell", "CurrentSelection",
      "ClearCellEdits">>

\* the .when(Class, ...) branches of NotebookMessageDispatcher.dispatch
NotebookBranches ==
    <<"Reconnect", "KernelCommand", "CreateComment", "UpdateComment",
      "DeleteComment", "SetCurrentSelection", "SetCellOutput",
      "SetCellLanguage", "CreateCell", "UpdateCell", "DeleteCell",
      "UpdateConfig", "RequestCompletions", "RequestSignature",
      "RequestNotebookVersion", "RequestCellRun", "RequestCancelTasks",
      "RequestClearOutput", "SetSelectedCell", "CurrentSelection",
      "ClearCellEdits", "DownloadNotebook">>

\* the .when(Class, ...) branches of ServerMessageDispatcher.dispatch
ServerBranches ==
    <<"RequestNotebooksList", "LoadNotebook", "CreateNotebook",
      "RenameNotebook", "CopyNotebook", "DeleteNotebook", "ViewAbout",
      "SetSelectedNotebook">>

\* the branches of a match whose class the action is an instance of; no
\* variant extends another
BranchesFor(branches, action) ==
    { i \in DOMAIN branches : branches[i] = action }

\* .when(class, fn) of a match over the action: the match has a branch for
\* the class and the action is an instance of it, so fn runs
When(branches, class, action) ==
    /\ action = class
    /\ BranchesFor(branches, class) # {}

\* NotebookMessageDispatcher.dispatch(action): match(action) runs the
\* .when branch of the action's class; an action none of the branches
\* matches runs nothing and leaves the notebook state as it is. Every
\* variant is handed over with one choice of its fields.
NotebookMatch(action) ==
    \/ /\ When(NotebookBranches, "Reconnect", action)
       /\ Reconnect(TRUE)
    \/ /\ When(NotebookBranches, "KernelCommand", action)
       /\ KernelCommand("start", TRUE)
    \/ /\ When(NotebookBranches, "CreateComment", action)
       /\ CreateComment(0, "c1")
    \/ /\ When(NotebookBranches, "UpdateComment", action)
       /\ UpdateComment(0, "k1", "r1", "c1")
    \/ /\ When(NotebookBranches, "DeleteComment", action)
       /\ DeleteComment(0, "k1")
    \/ /\ When(NotebookBranches, "SetCurrentSelection", action)
       /\ SetCurrentSelection(0, "r1")
    \/ /\ When(NotebookBranches, "SetCellOutput", action)
       /\ SetCellOutput(0, "o1")
    \/ /\ When(NotebookBranches, "SetCellLanguage", action)
       /\ SetCellLanguage(0, "python")
    \/ /\ When(NotebookBranches, "CreateCell", action)
       /\ CreateCell("scala", "", "m0", 0)
    \/ /\ When(NotebookBranches, "UpdateCell", action)
       /\ UpdateCell(0, <<"edit">>, "x", Undefined)
    \/ /\ When(NotebookBranches, "DeleteCell", action)
       /\ DeleteCell(0)
    \/ /\ When(NotebookBranches, "UpdateConfig", action)
       /\ UpdateConfig("conf1")
    \/ /\ When(NotebookBranches, "RequestCompletions", action)
       /\ RequestCompletions(0, 0)
    \/ /\ When(NotebookBranches, "RequestSignature", action)
       /\ RequestSignature(0, 0)
    \/ /\ When(NotebookBranches, "RequestNotebookVersion", action)
       /\ RequestNotebookVersion(0)
    \/ /\ When(NotebookBranches, "RequestCellRun", action)
       /\ RequestCellRun(<<0>>)
    \/ /\ When(NotebookBranches, "RequestCancelTasks", action)
       /\ RequestCancelTasks
    \/ /\ When(NotebookBranches, "RequestClearOutput", action)
       /\ RequestClearOutput
    \/ /\ When(NotebookBranches, "SetSelectedCell", action)
       /\ SetSelectedCell(<<0>>, "none")
    \/ /\ When(NotebookBranches, "CurrentSelection", action)
       /\ CurrentSelection(0, "r1")
    \/ /\ When(NotebookBranches, "ClearCellEdits", action)
       /\ ClearCellEdits(0)
    \/ /\ When(NotebookBranches, "DownloadNotebook", action)
       /\ DownloadNotebook
    \/ /\ BranchesFor(NotebookBranches, action) = {}
       /\ Sends("unmatched", <<action>>, <<>>)

\* ServerMessageDispatcher.dispatch(action): updateState runs match(action)
\* over the .when branches; an action none of the branches matches leaves
\* newS undefined, and s is returned as it is
ServerMatch(action) ==
    \/ /\ When(ServerBranches, "RequestNotebooksList", action)
       /\ RequestNotebooksList
    \/ /\ When(ServerBranches, "LoadNotebook", action)
       /\ LoadNotebook("a")
    \/ /\ When(ServerBranches, "CreateNotebook", action)
       /\ CreateNotebook("a", Undefined)
    \/ /\ When(ServerBranches, "RenameNotebook", action)
       /\ RenameNotebook("a", "b")
    \/ /\ When(ServerBranches, "CopyNotebook", action)
       /\ CopyNotebook("a", "b")
    \/ /\ When(ServerBranches, "DeleteNotebook", action)
       /\ DeleteNotebook("a")
    \/ /\ When(ServerBranches, "ViewAbout", action)
       /\ ViewAbout("about")
    \/ /\ When(ServerBranches, "SetSelectedNotebook", action)
       /\ SetSelectedNotebook(<<"a">>)
    \/ /\ BranchesFor(ServerBranches, action) = {}
       /\ SvDispatched("unmatched", <<action>>)
       /\ UNCHANGED <<notebooks, currentNotebook, about, svSent, nLoaded>>

\* a loaded notebook and a session without notebooks, each dispatcher having
\* been handed MaxDispatches - MaxSteps + 1 times a DownloadNotebook, which
\* leaves every field as it was: its branch in the notebook dispatcher is
\* empty and the server dispatcher has no branch for it. The records of the
\* last dispatch are those of the last of these calls, or the ones of
\* construction when there was none.
InitMatch ==
    LET handed == MaxDispatches - MaxSteps + 1
    IN  /\ cells = <<LoadedCell(1, [queued |-> FALSE, results |-> <<"out">>,
                                    error |-> TRUE]),
                     LoadedCell(0, [queued |-> FALSE, results |-> <<>>,
                                    error |-> FALSE])>>
        /\ globalVersion = 0
        /\ localVersion = 0
        /\ editBuffer = EmptyEditBuffer
        /\ activeCompletion = NoRequest
        /\ activeSignature = NoRequest
        /\ sent = <<>>
        /\ log = <<>>
        /\ nextReq = 1
        /\ nMutating = 0
        /\ nDispatch = handed
        /\ last = IF handed = 0 THEN [action |-> "none"]
                  ELSE [action |-> "DownloadNotebook", args |-> <<>>,
                        cells |-> cells, localVersion |-> localVersion,
                        globalVersion |-> globalVersion,
                        editBuffer |-> editBuffer, nSent |-> 0]
        /\ activeCell = <<>>
        /\ thrown = "none"
        /\ notebooks = << >>
        /\ currentNotebook = <<>>
        /\ about = <<>>
        /\ svSent = <<>>
        /\ nLoaded = 0
        /\ nSvDispatch = handed
        /\ svLast = IF handed = 0 THEN [action |-> "none", args |-> <<>>]
                    ELSE [action |-> "unmatched",
                          args |-> <<"DownloadNotebook">>,
                          prev |-> IF handed = 1 THEN <<"none", <<>>>>
                                   ELSE <<"unmatched", <<"DownloadNotebook">>>>,
                          notebooks |-> notebooks,
                          currentNotebook |-> currentNotebook,
                          about |-> about, nLoaded |-> nLoaded, nSent |-> 0]
        /\ BackupState0
        /\ ObserverState0

NextMatch ==
    \/ \E a \in UIActions : NotebookMatch(a)
    \/ \E a \in UIActions : ServerMatch(a)

SpecMatch == InitMatch /\ [][NextMatch]_vars

\* ------------------------------------------------------------------ claims
EditTypes == {"InsertCell", "UpdateCell", "DeleteCell", "UpdateConfig"}
IsEdit(m) == m.type \in EditTypes
IsInsert(m) == m.type = "InsertCell"
EditsSent == SelectSeq(sent, IsEdit)
InsertsSent == SelectSeq(sent, IsInsert)
LastSent == sent[Len(sent)]
IdSet(cs) == { cs[i].id : i \in 1..Len(cs) }
Largest(S) == CHOOSE m \in S : \A x \in S : x <= m
\* the cells of cs other than the one with the given id, in order
Without(cs, id) == LET Keep(c) == c.id # id IN SelectSeq(cs, Keep)

\* C1: after N content-mutating dispatches from localVersion = 0 (and no
\* authority message) localVersion equals N.
C1_LocalVersionCountsEdits == localVersion = nMutating

\* C2: the edit messages handed to socket.send carry localVersion values
\* that grow by exactly 1 from each edit message to the next.
C2_SentVersionsIncreaseByOne ==
    \A i \in 2..Len(EditsSent) :
        EditsSent[i].localVersion = EditsSent[i - 1].localVersion + 1

\* C3: every edit-buffer entry is stored under the localVersion its message
\* carries.
C3_BufferKeyIsMessageVersion ==
    \A k \in DOMAIN editBuffer : editBuffer[k].localVersion = k

\* C4: with no acknowledgement, the edit buffer holds as many entries as
\* content-mutating dispatches were issued (none overwritten or dropped).
C4_BufferSizeCountsEdits == Cardinality(DOMAIN editBuffer) = nMutating

\* C5: CreateCell sends exactly one InsertCell message whose cell id is
\* max(ids of the current cells) + 1, or 0 for an empty notebook, and whose
\* prev is the requested prev.
C5_CreateCellSendsNextId ==
    last.action = "CreateCell" =>
        /\ Len(sent) = last.nSent + 1
        /\ LastSent.type = "InsertCell"
        /\ LastSent.cell.id = IF last.cells = <<>> THEN 0
                              ELSE Largest(IdSet(last.cells)) + 1
        /\ LastSent.after = last.args[4]

\* C5 witness: a CreateCell on a two-cell notebook whose largest id is not
\* that of its last cell.
C5_Witness ==
    /\ last.action = "CreateCell"
    /\ Len(last.cells) = 2
    /\ last.cells[1].id > last.cells[2].id

\* C6: the InsertCell messages of successive CreateCell dispatches carry
\* strictly increasing (hence pairwise distinct) cell ids.
C6_InsertedIdsIncrease ==
    \A i \in 2..Len(InsertsSent) :
        InsertsSent[i].cell.id > InsertsSent[i - 1].cell.id

\* C7: after CreateCell with prev = p the local cell sequence holds the new
\* cell immediately after the cell with id p.
C7_CreateCellInsertsLocally ==
    (last.action = "CreateCell" /\ last.args[4] \in IdSet(last.cells)) =>
        \E i \in 1..(Len(cells) - 1) :
            /\ cells[i].id = last.args[4]
            /\ cells[i + 1].id = LastSent.cell.id

\* C8: after DeleteCell(id) the local cell sequence has no cell with that
\* id, the other cells keep their order, and the edit-buffer entries issued
\* earlier are still present.
C8_DeleteCellRemovesLocally ==
    last.action = "DeleteCell" =>
        /\ last.args[1] \notin IdSet(cells)
        /\ cells = Without(last.cells, last.args[1])
        /\ \A k \in DOMAIN last.editBuffer :
               k \in DOMAIN editBuffer /\ editBuffer[k] = last.editBuffer[k]

\* C9: RequestCellRun(ids) sends RunCell with the ids of all current cells
\* in order when ids is empty and with exactly ids otherwise; afterwards the
\* targeted cells are queued with no results and no error, and the other
\* cells are unchanged.
C9_RequestCellRunQueuesTargets ==
    last.action = "RequestCellRun" =>
        LET ids == last.args[1]
            before == last.cells
            target(i) == \E j \in 1..Len(LastSent.ids) :
                            LastSent.ids[j] = before[i].id
        IN  /\ Len(sent) = last.nSent + 1
            /\ LastSent.type = "RunCell"
            /\ LastSent.ids = IF ids = <<>>
                              THEN [i \in 1..Len(before) |-> before[i].id]
                              ELSE ids
            /\ Len(cells) = Len(before)
            /\ \A i \in 1..Len(before) :
                  IF target(i)
                  THEN /\ cells[i].queued = TRUE
                       /\ cells[i].results = <<>>
                       /\ cells[i].error = FALSE
                       /\ cells[i].id = before[i].id
                       /\ cells[i].content = before[i].content
                       /\ cells[i].language = before[i].language
                       /\ cells[i].metadata = before[i].metadata
                  ELSE cells[i] = before[i]

\* C9 witness: a run-all (empty id list) on a two-cell notebook one of whose
\* cells had results and an error.
C9_Witness ==
    /\ last.action = "RequestCellRun"
    /\ last.args[1] = <<>>
    /\ Len(last.cells) = 2
    /\ \E i \in 1..2 : last.cells[i].error /\ last.cells[i].results # <<>>
    /\ \E i \in 1..2 : ~last.cells[i].error

\* positions of the log at which a request is stored into slot
StoresOf(slot) ==
    { i \in 1..Len(log) : log[i].event = "store" /\ log[i].slot = slot }
\* positions of the log at which callback fn of request req is called
CallsOf(fn, req) ==
    { i \in 1..Len(log) :
        log[i].event = "call" /\ log[i].fn = fn /\ log[i].req = req }

OneInFlight(slot, active) ==
    LET stores == StoresOf(slot)
    IN  /\ active = IF stores = {} THEN NoRequest ELSE log[Largest(stores)].req
        /\ \A i \in stores :
              LET req == log[i].req
                  later == { j \in stores : j > i }
              IN  /\ CallsOf("resolve", req) = {}
                  /\ IF later = {}
                     THEN CallsOf("reject", req) = {}
                     ELSE LET next == CHOOSE j \in later : \A l \in later : j <= l
                          IN  /\ Cardinality(CallsOf("reject", req)) = 1
                              /\ \A k \in CallsOf("reject", req) : i < k /\ k < next

\* C10: each slot holds the newest request of its kind only; every
\* superseded request's reject was called exactly once, before the newer
\* request was stored, and no callback of the request in the slot was called.
C10_RequestsSuperseded ==
    /\ OneInFlight("activeCompletion", activeCompletion)
    /\ OneInFlight("activeSignature", activeSignature)

\* C10 witness: a completion request superseded by a second one while a
\* signature request is in flight.
C10_Witness ==
    /\ Cardinality(StoresOf("activeCompletion")) = 2
    /\ Cardinality(StoresOf("activeSignature")) = 1
    /\ \E r \in 1..nextReq : CallsOf("reject", r) # {}

\* C11: SetSelectedCell(id, 'above') with id the first cell, and
\* SetSelectedCell(id, 'below') with id the last cell, select the cell id
\* itself: exactly that cell is selected, it is the active cell, and the
\* dispatch does not throw.
C11_EdgeNeighbourSelectsAnchor ==
    (/\ last.action = "SetSelectedCell"
     /\ last.cells # <<>>
     /\ \/ last.args[2] = "above" /\ last.args[1] = <<last.cells[1].id>>
        \/ last.args[2] = "below"
              /\ last.args[1] = <<last.cells[Len(last.cells)].id>>)
    => /\ thrown = "none"
       /\ activeCell # <<>>
       /\ <<activeCell[1].id>> = last.args[1]
       /\ Len(cells) = Len(last.cells)
       /\ \A i \in 1..Len(cells) :
             /\ cells[i].id = last.cells[i].id
             /\ cells[i].selected <=> (<<cells[i].id>> = last.args[1])

\* C11 witness: 'above' on the first of two cells while the other cell was
\* the selected one.
C11_Witness ==
    /\ last.action = "SetSelectedCell"
    /\ last.args[2] = "above"
    /\ Len(last.cells) = 2
    /\ last.args[1] = <<last.cells[1].id>>
    /\ last.cells[2].selected
    /\ cells[1].selected

\* the neighbour a relative SetSelectedCell computes does not exist
NoNeighbour(cs, selected, relative) ==
    LET at == { i \in 1..Len(cs) : <<cs[i].id>> = selected }
        anchor == IF at = {} THEN 0
                  ELSE CHOOSE i \in at : \A j \in at : i <= j
    IN  \/ relative = "above" /\ (at = {} \/ anchor = 1)
        \/ relative = "below" /\ (IF at = {} THEN cs = <<>> ELSE anchor = Len(cs))

\* exactly the cells with id n are selected, and the active cell is the cell
\* with id n, or undefined when there is none
SelectionIs(n) ==
    /\ \A i \in 1..Len(cells) : cells[i].selected <=> (cells[i].id = n)
    /\ IF \E i \in 1..Len(cells) : cells[i].id = n
       THEN activeCell # <<>> /\ activeCell[1].id = n
       ELSE activeCell = <<>>

\* nothing is selected and there is no active cell
SelectionIsEmpty ==
    /\ \A i \in 1..Len(cells) : ~cells[i].selected
    /\ activeCell = <<>>

\* C12 as stated: a relative SetSelectedCell whose neighbour does not exist
\* and whose requested id is undefined selects id 0.
C12_UndefinedFallsBackToZero ==
    (/\ last.action = "SetSelectedCell"
     /\ last.args[1] = <<>>
     /\ NoNeighbour(last.cells, last.args[1], last.args[2]))
    => SelectionIs(0)

\* C12 amended: a relative SetSelectedCell whose neighbour does not exist
\* falls back to the requested id; id 0 is selected only when the requested
\* id is -1, and with an undefined requested id no cell is selected and
\* there is no active cell.
C12_FallbackToRequested ==
    (/\ last.action = "SetSelectedCell"
     /\ NoNeighbour(last.cells, last.args[1], last.args[2]))
    => /\ thrown = "none"
       /\ IF last.args[1] = <<>> THEN SelectionIsEmpty
          ELSE IF last.args[1] = <<-1>> THEN SelectionIs(0)
          ELSE SelectionIs(last.args[1][1])

\* C12 witness: 'above' with an undefined id on a notebook that holds a
\* selected cell with id 0.
C12_Witness ==
    /\ last.action = "SetSelectedCell"
    /\ last.args = << <<>>, "above" >>
    /\ \E i \in 1..Len(last.cells) :
          last.cells[i].id = 0 /\ last.cells[i].selected

\* C13: every dispatch call and every helper returns normally.
C13_NeverThrows == thrown = "none"

\* the message type a send-only session action produces
SessionMessageType(action) ==
    IF action = "RequestNotebooksList" THEN "ListNotebooks" ELSE action

SendOnlyActions ==
    {"RequestNotebooksList", "CreateNotebook", "RenameNotebook",
     "CopyNotebook", "DeleteNotebook"}

\* C14: only LoadNotebook and SetSelectedNotebook change notebooks or
\* currentNotebook; RequestNotebooksList, CreateNotebook, RenameNotebook,
\* CopyNotebook and DeleteNotebook send exactly one corresponding message
\* and leave both unchanged.
C14_SessionActionsOnlySend ==
    /\ svLast.action \notin {"none", "LoadNotebook", "SetSelectedNotebook"} =>
          /\ notebooks = svLast.notebooks
          /\ currentNotebook = svLast.currentNotebook
    /\ svLast.action \in SendOnlyActions =>
          /\ Len(svSent) = svLast.nSent + 1
          /\ svSent[Len(svSent)].type = SessionMessageType(svLast.action)
          /\ SubSeq(svSent, 1, svLast.nSent) = SubSeq(svSent, 1, Len(svSent) - 1)

\* C14 witness: DeleteNotebook of the tracked, current notebook.
C14_Witness ==
    /\ svLast.action = "DeleteNotebook"
    /\ svLast.args[1] \in DOMAIN svLast.notebooks
    /\ svLast.currentNotebook = <<svLast.args[1]>>

\* C15: LoadNotebook(path) creates and registers exactly one notebook state
\* when path is untracked and none when it is tracked (the handle is kept),
\* sets currentNotebook = path either way, and dispatched a second time
\* leaves the state as the first dispatch left it.
C15_LoadNotebookIdempotent ==
    svLast.action = "LoadNotebook" =>
        LET path == svLast.args[1]
            before == svLast.notebooks
        IN  /\ currentNotebook = <<path>>
            /\ path \in DOMAIN notebooks
            /\ DOMAIN notebooks = (DOMAIN before) \cup {path}
            /\ \A k \in DOMAIN before : notebooks[k] = before[k]
            /\ nLoaded = svLast.nLoaded + (IF path \in DOMAIN before THEN 0 ELSE 1)
            /\ Len(svSent) = svLast.nSent
            /\ svLast.prev = <<"LoadNotebook", <<path>> >> =>
                  /\ notebooks = before
                  /\ currentNotebook = svLast.currentNotebook
                  /\ nLoaded = svLast.nLoaded

\* C15 witness: LoadNotebook of the same path twice in a row, with another
\* notebook loaded before.
C15_Witness ==
    /\ svLast.action = "LoadNotebook"
    /\ svLast.prev = <<"LoadNotebook", svLast.args>>
    /\ Cardinality(DOMAIN notebooks) = 2

\* the day-buckets stored for path p in store st (none when p has no entry)
BucketsOf(st, p) == IF p \in DOMAIN st THEN st[p].backups ELSE << >>
\* the path of the last ClientBackup call
CallPath == bkLast.args[1]
NewestDayOf(buckets) ==
    CHOOSE d \in DOMAIN buckets : \A e \in DOMAIN buckets : e <= d
\* the backup stored last on the most recent day of the buckets
NewestBackupOf(buckets) ==
    LET bucket == buckets[NewestDayOf(buckets)] IN bucket[Len(bucket)]

\* C16: the number of day-buckets stored for a path never exceeds
\* BACKUPS_PER_NOTEBOOK.
C16_BucketsWithinLimit ==
    \A p \in DOMAIN store :
        Cardinality(DOMAIN store[p].backups) <= BACKUPS_PER_NOTEBOOK

\* C17: every day-bucket holds at most BACKUPS_PER_DAY backups; adding to a
\* bucket that holds BACKUPS_PER_DAY entries removes its entry at index 0,
\* appends the new backup at the end and keeps the others in order. The
\* bucket is the one of the day addBackup finds at line 113.
C17_DayBucketSlides ==
    /\ \A p \in DOMAIN store : \A d \in DOMAIN store[p].backups :
          Len(store[p].backups[d]) <= BACKUPS_PER_DAY
    /\ (/\ bkLast.op = "addNb"
        /\ bkLast.days[2] \in DOMAIN BucketsOf(bkLast.store, CallPath)
        /\ Len(BucketsOf(bkLast.store, CallPath)[bkLast.days[2]])
              = BACKUPS_PER_DAY)
       => LET old == bkLast.store[CallPath].backups[bkLast.days[2]]
              new == store[CallPath].backups[bkLast.days[2]]
          IN  /\ Len(new) = BACKUPS_PER_DAY
              /\ \A i \in 1..(BACKUPS_PER_DAY - 1) : new[i] = old[i + 1]
              /\ new[BACKUPS_PER_DAY].ts = bkLast.now
              /\ \A i \in 1..BACKUPS_PER_DAY : new[i].ts # old[1].ts

\* C18: an add for a path that holds BACKUPS_PER_NOTEBOOK + 1 day-buckets
\* deletes exactly the bucket of the smallest day, leaves the path with
\* BACKUPS_PER_NOTEBOOK buckets, and no other bucket loses entries.
C18_OldestDayEvicted ==
    (/\ bkLast.op = "addNb"
     /\ Cardinality(DOMAIN BucketsOf(bkLast.store, CallPath))
           = BACKUPS_PER_NOTEBOOK + 1)
    => LET old == bkLast.store[CallPath].backups
           new == store[CallPath].backups
           oldest == CHOOSE d \in DOMAIN old : \A e \in DOMAIN old : d <= e
       IN  /\ oldest \notin DOMAIN new
           /\ (DOMAIN old) \ {oldest} \subseteq DOMAIN new
           /\ Cardinality(DOMAIN new) = BACKUPS_PER_NOTEBOOK
           /\ \A d \in (DOMAIN old) \ {oldest} :
                 \A i \in 1..Len(old[d]) :
                    \E j \in 1..Len(new[d]) : new[d][j] = old[d][i]

\* C19: addNb with the content of the latest stored backup of the path (same
\* path, same cells with results stripped, same config, no updates) does not
\* write the store.
C19_SameContentIsNoOp ==
    (/\ bkLast.op = "addNb"
     /\ DOMAIN BucketsOf(bkLast.store, CallPath) # {}
     /\ LET latest == NewestBackupOf(BucketsOf(bkLast.store, CallPath))
        IN  /\ latest.path = CallPath
            /\ latest.cells = ClearedCells(bkLast.args[2])
            /\ latest.config = bkLast.args[3]
            /\ latest.updates = <<>>)
    => store = bkLast.store

\* C20: updateNb on a path without an entry rejects and leaves the store
\* unchanged; on a path with an entry it resolves, and the update list of
\* the path's latest backup grows by exactly the given update, at its end,
\* while every other stored backup stays as it was.
C20_UpdateNbAppends ==
    bkLast.op = "updateNb" =>
        IF CallPath \notin DOMAIN bkLast.store
        THEN bkLast.outcome = "rejected" /\ store = bkLast.store
        ELSE LET old == bkLast.store[CallPath].backups
                 new == store[CallPath].backups
                 d == NewestDayOf(old)
                 n == Len(old[d])
             IN  /\ bkLast.outcome = "resolved"
                 /\ DOMAIN store = DOMAIN bkLast.store
                 /\ \A p \in (DOMAIN store) \ {CallPath} : store[p] = bkLast.store[p]
                 /\ DOMAIN new = DOMAIN old
                 /\ \A e \in (DOMAIN old) \ {d} : new[e] = old[e]
                 /\ Len(new[d]) = n
                 /\ \A i \in 1..(n - 1) : new[d][i] = old[d][i]
                 /\ Len(new[d][n].updates) = Len(old[d][n].updates) + 1
                 /\ SubSeq(new[d][n].updates, 1, Len(old[d][n].updates))
                       = old[d][n].updates
                 /\ new[d][n].updates[Len(new[d][n].updates)].upd = bkLast.args[2]
                 /\ [new[d][n] EXCEPT !.updates = <<>>]
                       = [old[d][n] EXCEPT !.updates = <<>>]

\* C20 witness: an updateNb on a later day than the path's last backup, which
\* already carried an update.
C20_Witness ==
    /\ bkLast.op = "updateNb"
    /\ bkLast.outcome = "resolved"
    /\ bkLast.today \notin DOMAIN bkLast.store[CallPath].backups
    /\ NewestBackupOf(bkLast.store[CallPath].backups).updates # <<>>

\* ---- claims about ClientBackup calls in flight
Done(c) == c.pc = "done"
IsWrite(c) == c.op \in {"addNb", "updateNb"}

RECURSIVE SumOver(_, _)
SumOver(f, S) ==
    IF S = {} THEN 0
    ELSE LET x == CHOOSE y \in S : TRUE IN f[x] + SumOver(f, S \ {x})

\* number of backups and updates stored for path p
Entries(st, p) ==
    IF p \notin DOMAIN st THEN 0
    ELSE LET bk == st[p].backups
         IN  SumOver([d \in DOMAIN bk |->
                        Len(bk[d]) + SumOver([k \in 1..Len(bk[d]) |->
                                                 Len(bk[d][k].updates)],
                                             1..Len(bk[d]))],
                     DOMAIN bk)

\* C21: getBackups(path) rejects whenever the store has no entry for path
\* and never resolves with an empty or substituted record; it resolves with
\* exactly the stored record when there is one; no step of a getBackups
\* call, neither the call itself nor the settling of its get, changes the
\* store.
C21_GetBackupsRejectsOrReturnsStored ==
    /\ [](\A i \in DOMAIN calls :
            LET c == calls[i]
            IN  (c.op = "getBackups" /\ Done(c)) =>
                  IF c.path \in DOMAIN c.seen
                  THEN c.outcome = "resolved" /\ c.result = <<c.seen[c.path]>>
                  ELSE c.outcome = "rejected" /\ c.result = <<>>)
    /\ [][(\E i \in DOMAIN calls' :
             /\ calls'[i].op = "getBackups"
             /\ (i \notin DOMAIN calls \/ calls[i] # calls'[i]))
          => store' = store]_vars

C21_Witness ==
    \E i, j \in DOMAIN calls :
        /\ calls[i].op = "getBackups" /\ calls[i].outcome = "rejected"
        /\ calls[j].op = "getBackups" /\ calls[j].outcome = "resolved"
        /\ calls[j].result[1].backups # << >>

\* C22: clearBackups always resolves, and every record its wipe removes is
\* contained in the value it returns, under any interleaving with other
\* ClientBackup calls.
C22_ClearReturnsAllItWipes ==
    \A i \in DOMAIN calls :
        LET c == calls[i]
        IN  (c.op = "clearBackups" /\ Done(c)) =>
              /\ c.outcome = "resolved"
              /\ \A p \in DOMAIN c.wiped :
                    /\ p \in DOMAIN c.result[1]
                    /\ c.result[1][p] = c.wiped[p]

\* two writes to one path of which j read before i wrote and wrote after it
Overtaken(i, j) ==
    /\ i # j
    /\ IsWrite(calls[i]) /\ IsWrite(calls[j])
    /\ calls[i].path = calls[j].path
    /\ calls[i].wroteAt > 0 /\ calls[j].wroteAt > 0
    /\ calls[j].readAt < calls[i].wroteAt
    /\ calls[i].wroteAt < calls[j].wroteAt

\* the write calls for path p whose set has settled
Written(p) ==
    { i \in DOMAIN calls :
        IsWrite(calls[i]) /\ calls[i].path = p /\ calls[i].wroteAt > 0 }

\* every write call was issued after the write calls before it had settled
OneAtATime ==
    \A i, j \in DOMAIN calls :
        (i < j /\ IsWrite(calls[i]) /\ IsWrite(calls[j]))
            => (Done(calls[i]) /\ calls[i].doneAt < calls[j].issuedAt)

NoClear == \A i \in DOMAIN calls : calls[i].op # "clearBackups"

\* C23: writes to one path are not serialized: when of two writes both read
\* before either writes, the record stored holds fewer entries than the
\* writes added (with two writes: the entry of one of them); when every call
\* starts after the one before it has completed, every write's entry is
\* stored.
C23_LostUpdateOnlyWhenOverlapping ==
    (NoClear /\ calls # <<>>) =>
      \A p \in Paths :
        LET before == Entries(calls[1].base, p)
            added == Cardinality(Written(p))
        IN  /\ (\E i, j \in Written(p) : Overtaken(i, j)) =>
                  /\ Entries(store, p) < before + added
                  /\ added = 2 => Entries(store, p) = before + 1
            /\ OneAtATime => Entries(store, p) = before + added

C23_Witness ==
    /\ NoClear
    /\ \E i, j \in DOMAIN calls :
          /\ Overtaken(i, j)
          /\ calls[i].readAt < calls[j].wroteAt
          /\ calls[i].outcome = "resolved" /\ calls[j].outcome = "resolved"
          /\ store[calls[j].path] = calls[j].result[1]
          /\ Entries(store, calls[j].path)
                = Entries(calls[1].base, calls[j].path) + 1

\* ---- claims about latestBackup and the cells addNb stores
\* the day C26 names: today when it has a bucket, else the largest day
DayOfLatest(buckets, day) ==
    IF day \in DOMAIN buckets THEN day ELSE Largest(DOMAIN buckets)

\* C26: latestBackup is the last entry of today's bucket when there is one,
\* else the last entry of the bucket with the largest day, and undefined
\* (no exception) without buckets; so updateNb on a later day appends to the
\* last backup of the most recent earlier day.
C26_LatestBackupResolution ==
    /\ (bkLast.op = "updateNb" /\ bkLast.outcome = "resolved") =>
          LET old == bkLast.store[CallPath].backups
              new == store[CallPath].backups
              d == DayOfLatest(old, bkLast.today)
              n == Len(old[d])
          IN  /\ DOMAIN new = DOMAIN old
              /\ \A e \in DOMAIN old \ {d} : new[e] = old[e]
              /\ Len(new[d]) = n
              /\ \A k \in 1..(n - 1) : new[d][k] = old[d][k]
              /\ new[d][n].updates =
                    Append(old[d][n].updates,
                           [ts |-> bkLast.now, upd |-> bkLast.args[2]])
    /\ (bkLast.op = "addNb" /\ CallPath \notin DOMAIN bkLast.store) =>
          /\ bkLast.outcome = "resolved"
          /\ DOMAIN store[CallPath].backups = {bkLast.today}
    /\ bkLast.op \in {"addNb", "updateNb"} =>
          \A p \in DOMAIN store :
             LET latest == latestBackup(FromI(store[p]), today)
                 d == DayOfLatest(store[p].backups, today)
             IN  /\ latest # <<>>
                 /\ BackupToI(latest[1]) = store[p].backups[d][Len(store[p].backups[d])]

C26_Witness ==
    /\ bkLast.op = "updateNb"
    /\ bkLast.outcome = "resolved"
    /\ bkLast.today \notin DOMAIN bkLast.store[CallPath].backups
    /\ Cardinality(DOMAIN bkLast.store[CallPath].backups) >= 2
    /\ store[CallPath] # bkLast.store[CallPath]

\* C28: every cell of a backup written by addNb has an empty results list
\* whatever the input cell carried; its id, language, content, metadata and
\* comments are the input cell's, in the input's order.
C28_StoredCellsHaveNoResults ==
    /\ \A p \in DOMAIN store : \A d \in DOMAIN store[p].backups :
          \A k \in 1..Len(store[p].backups[d]) :
             \A i \in 1..Len(store[p].backups[d][k].cells) :
                store[p].backups[d][k].cells[i].results = <<>>
    /\ (bkLast.op = "addNb" /\ bkLast.outcome = "resolved") =>
          LET bucket == store[CallPath].backups[bkLast.today]
              stored == bucket[Len(bucket)]
              input == bkLast.args[2]
          IN  /\ stored.ts = bkLast.now
              /\ Len(stored.cells) = Len(input)
              /\ \A i \in 1..Len(input) :
                    /\ stored.cells[i].results = <<>>
                    /\ stored.cells[i].id = input[i].id
                    /\ stored.cells[i].language = input[i].language
                    /\ stored.cells[i].content = input[i].content
                    /\ stored.cells[i].metadata = input[i].metadata
                    /\ stored.cells[i].comments = input[i].comments

C28_Witness ==
    /\ bkLast.op = "addNb"
    /\ bkLast.outcome = "resolved"
    /\ Len(bkLast.args[2]) = 2
    /\ bkLast.args[2][1].results # <<>>
    /\ bkLast.args[2][1].id # bkLast.args[2][2].id
    /\ LET bucket == store[CallPath].backups[bkLast.today]
       IN  bucket[Len(bucket)].cells[1].id = bkLast.args[2][1].id

\* ---- claims about the whole dispatcher
\* the messages the last step handed to socket.send
NewlySent == SubSeq(sent, last.nSent + 1, Len(sent))

\* C24: when the socket's status is observed to become "connected" one
\* KernelStatus request is sent in that step; none is sent when it becomes
\* "disconnected" or "connecting", and no dispatch sends one.
C24_StatusRequestOnConnected ==
    IF last.action = "StatusChanged"
    THEN IF last.args[1] = "connected"
         THEN /\ Len(NewlySent) = 1
              /\ NewlySent[1].type = "KernelStatus"
              /\ NewlySent[1].update =
                    [type |-> "KernelBusyState", busy |-> FALSE, alive |-> FALSE]
         ELSE NewlySent = <<>>
    ELSE \A i \in 1..Len(NewlySent) : NewlySent[i].type # "KernelStatus"

C24_Witness ==
    /\ last.action = "StatusChanged"
    /\ socketStatus = "connected"
    /\ sent # <<>>
    /\ LastSent.type = "KernelStatus"

\* C27: no dispatch of either dispatcher and no helper changes
\* globalVersion, and every edit message sent carries it.
C27_GlobalVersionFrame ==
    /\ [][globalVersion' = globalVersion]_vars
    /\ [](\A i \in 1..Len(sent) :
             "globalVersion" \in DOMAIN sent[i]
                => sent[i].globalVersion = globalVersion)

C27_Witness ==
    /\ globalVersion > 0
    /\ Len(EditsSent) = 2
    /\ nLoaded > 0
    /\ \A i \in 1..Len(EditsSent) : EditsSent[i].globalVersion = globalVersion

\* C29: runToActiveCell leaves the ids of the notebook's cells and their
\* order as they were; the cells before the active cell become queued and no
\* other cell changes.
C29_RunToActiveCellKeepsCells ==
    last.action = "runToActiveCell" =>
        LET activeIdx == IF activeCell = <<>> THEN -1
                         ELSE FindIndex(last.cells, <<activeCell[1].id>>)
            before == IF activeIdx < 0 THEN <<>>
                      ELSE Ids(SubSeq(last.cells, 1, activeIdx))
        IN  /\ Ids(cells) = Ids(last.cells)
            /\ cells = MarkQueued(last.cells, before)

\* the notebook actions that are not edits, and those of them whose message
\* carries the versions
NotEdits ==
    {"Reconnect", "KernelCommand", "CreateComment", "UpdateComment",
     "DeleteComment", "SetCurrentSelection", "SetCellOutput",
     "SetCellLanguage", "RequestCompletions", "RequestSignature",
     "RequestNotebookVersion", "RequestCellRun", "RequestCancelTasks",
     "RequestClearOutput", "SetSelectedCell", "CurrentSelection",
     "ClearCellEdits", "DownloadNotebook"}
Versioned ==
    {"CreateComment", "UpdateComment", "DeleteComment", "SetCellOutput",
     "SetCellLanguage"}

\* C30: a dispatch of a notebook action other than CreateCell, UpdateCell,
\* DeleteCell and UpdateConfig leaves localVersion and the edit buffer as
\* they were; comments, SetCellOutput and SetCellLanguage send their
\* message with the current localVersion.
C30_OtherActionsKeepVersion ==
    last.action \in NotEdits =>
        /\ localVersion = last.localVersion
        /\ editBuffer = last.editBuffer
        /\ last.action \in Versioned =>
              /\ Len(NewlySent) = 1
              /\ NewlySent[1].type = last.action
              /\ NewlySent[1].localVersion = last.localVersion

C30_Witness ==
    /\ last.action \in Versioned
    /\ localVersion > 0
    /\ editBuffer # EmptyEditBuffer
    /\ LastSent.localVersion = localVersion

\* ---- claims about match
\* the UIAction variant a dispatch was handed, and the branches it ran, as
\* the dispatcher's record of its last dispatch shows them
Given(dispatch) ==
    IF dispatch.action = "unmatched" THEN dispatch.args[1] ELSE dispatch.action
Ran(dispatch) ==
    IF dispatch.action = "unmatched" THEN {} ELSE {dispatch.action}

\* C25: every UIAction variant is handled by exactly one branch of exactly
\* one of the two dispatchers: a variant handed to a dispatcher has at most
\* one branch there, and when the two dispatchers were handed the same
\* variant exactly one of them ran a branch.
C25_DispatchPartitionsVariants ==
    /\ Cardinality(BranchesFor(NotebookBranches, Given(last))) <= 1
    /\ Cardinality(BranchesFor(ServerBranches, Given(svLast))) <= 1
    /\ Given(last) = Given(svLast) =>
          Cardinality(Ran(last)) + Cardinality(Ran(svLast)) = 1

C25_Witness ==
    /\ Given(last) = "LoadNotebook" /\ Ran(last) = {}
    /\ Given(svLast) = "LoadNotebook" /\ Ran(svLast) = {"LoadNotebook"}
    /\ currentNotebook # <<>>
====
